---------------------------- MODULE Spec2Model ----------------------------
(***************************************************************************)
(* A model of BioSim_G21_Julie_Marisha (src/BioSim_G21_Julie_Marisha/src/  *)
(* biosim): the island Rossumoya, its cells and animals, and the BioSim    *)
(* interface.                                                              *)
(*                                                                         *)
(* Strings of the program are sequences of one-character strings, the      *)
(* line break being "\n".                                                  *)
(***************************************************************************)
EXTENDS Integers, Sequences, FiniteSets, TLC

VARIABLES
    map_arg,        \* the island_map string handed to check_map_input
    map_result,     \* what check_map_input did: "none" before the call
    class_params,   \* the class attributes set by the set_parameters methods
    prev_params,    \* class_params as they were when the last call was made
    raised,         \* the exception the last call raised, "none" if it returned
    last_call,      \* the last call made and its arguments
    n_calls,        \* the number of set-parameters calls made so far
    island,         \* Rossumoya.island_map: location -> cell
    year,           \* BioSim._year
    final_year,     \* BioSim._final_year
    pc,             \* where Rossumoya.single_year stands, "idle" between calls
    frame,          \* the local variables of the loop single_year is in
    next_id,        \* the identity the next animal object gets
    years_started,  \* the number of single_year calls begun
    phases_run,     \* the phases of the running year that are finished
    moves,          \* animal -> its cell when migration began and every cell
                    \* it was moved to since
    n_adds,         \* the number of add_population calls made so far
    sim_args,       \* the arguments BioSim was constructed with
    np_random_seed, \* the seed NumPy's global generator was last given
    first_run,      \* what an earlier BioSim of the same arguments reported
    sim_log,        \* the simulate calls made: the sum of their num_years,
                    \* how many of them raised, and _year and the number of
                    \* single_year calls when the last one was made
    propensity_cache, \* cells: location -> propensity_herb_calculated,
                    \* _propensity_migration_herb and the same for carn;
                    \* read: the propensities the last choose_cell read
    lone_animal     \* an animal object in no cell, with its
                    \* fitness_has_been_calculated and _fitness

mapVars == <<map_arg, map_result>>

paramVars == <<class_params, prev_params, raised, last_call, n_calls>>

seedVars == <<sim_args, np_random_seed, first_run>>

simVars ==
    <<island, year, final_year, pc, frame, next_id, years_started,
      phases_run, moves, n_adds, sim_args, np_random_seed, first_run,
      sim_log, propensity_cache,
      lone_animal>>

vars ==
    <<map_arg, map_result, class_params, prev_params, raised, last_call,
      n_calls, island, year, final_year, pc, frame, next_id, years_started,
      phases_run, moves, n_adds, sim_args, np_random_seed, first_run,
      sim_log, propensity_cache,
      lone_animal>>

(***************************************************************************)
(* Numbers.  The program computes with floats; the model computes with     *)
(* integers in fixed point.  Species and landscape parameters, weights and *)
(* fodder are in thousandths (8.0 is 8000), ages are whole years.          *)
(***************************************************************************)

Min(S) == CHOOSE x \in S : \A y \in S : x <= y

(***************************************************************************)
(* What a call did: it returned (type "none", or "return" with the value   *)
(* returned) or it raised a Python exception of the given type and message.*)
(***************************************************************************)

Raise(type, msg) == [type |-> type, msg |-> msg]

NoException == Raise("none", "")

ValueError(msg) == Raise("ValueError", msg)

(***************************************************************************)
(* Rossumoya: the geography string                                         *)
(***************************************************************************)

\* Rossumoya.cell_codes: the keys of the dictionary
cell_codes == {"S", "J", "D", "O", "M"}

\* str.split("\n"): the pieces between line breaks, empty pieces kept
RECURSIVE SplitLines(_)
SplitLines(s) ==
    IF \A i \in 1..Len(s) : s[i] # "\n"
    THEN <<s>>
    ELSE LET i == CHOOSE k \in 1..Len(s) :
                      s[k] = "\n" /\ \A j \in 1..(k - 1) : s[j] # "\n"
         IN  <<SubSeq(s, 1, i - 1)>> \o SplitLines(SubSeq(s, i + 1, Len(s)))

\* "\n".join(rows): used to write the maps of this module row by row
RECURSIVE JoinLines(_)
JoinLines(rows) ==
    IF Len(rows) = 0 THEN <<>>
    ELSE IF Len(rows) = 1 THEN rows[1]
    ELSE rows[1] \o <<"\n">> \o JoinLines(Tail(rows))

\* Rossumoya.check_map_input, loop by loop: the first failing check decides.
\* The last loop reads row[0] and row[-1], an IndexError on an empty row.
check_map_input(island_map) ==
    LET island_map_list == SplitLines(island_map)
        length_first_row == Len(island_map_list[1])
        n == Len(island_map_list)
    IN  IF \E r \in 1..n : Len(island_map_list[r]) # length_first_row
        THEN ValueError("Inconsistent line length.")
        ELSE IF \E r \in 1..n : \E c \in 1..Len(island_map_list[r]) :
                    island_map_list[r][c] \notin cell_codes
        THEN ValueError("Invalid landscape type.")
        ELSE IF \E c \in 1..Len(island_map_list[1]) :
                    island_map_list[1][c] # "O"
        THEN ValueError("Non-ocean boundary.")
        ELSE IF \E c \in 1..Len(island_map_list[n]) :
                    island_map_list[n][c] # "O"
        THEN ValueError("Non-ocean boundary.")
        ELSE IF Len(island_map_list[1]) = 0
        THEN Raise("IndexError", "string index out of range")
        ELSE IF \E r \in 1..n :
                    \/ island_map_list[r][1] # "O"
                    \/ island_map_list[r][Len(island_map_list[r])] # "O"
        THEN ValueError("Non-ocean boundary.")
        ELSE Raise("return", "True")

\* the island maps the simulation is run on, row by row
MapA ==
    JoinLines(<< <<"O", "O", "O", "O">>,
                 <<"O", "J", "S", "O">>,
                 <<"O", "M", "D", "O">>,
                 <<"O", "O", "O", "O">> >>)

MapB ==
    JoinLines(<< <<"O", "O", "O">>,
                 <<"O", "J", "O">>,
                 <<"O", "O", "O">> >>)

SimMaps == {MapA, MapB}

\* ---- inputs of check_map_input ----
MaxMapLen == 5

MapAlphabet == cell_codes \cup {"X", "\n"}

\* every string of at most MaxMapLen characters
ShortMaps == UNION {[1..n -> MapAlphabet] : n \in 0..MaxMapLen}

\* the maps that differ from m in at most one character
OneCharChanged(m) ==
    {[m EXCEPT ![i] = ch] : i \in 1..Len(m), ch \in MapAlphabet}

MapInputs == ShortMaps \cup UNION {OneCharChanged(m) : m \in SimMaps}

InitMapVars ==
    /\ map_arg \in MapInputs
    /\ map_result = NoException

\* a call Rossumoya.check_map_input(map_arg)
CheckMapInput ==
    /\ map_result = NoException
    /\ map_result' = check_map_input(map_arg)
    /\ UNCHANGED map_arg
    /\ UNCHANGED paramVars
    /\ UNCHANGED simVars


(***************************************************************************)
(* Class-level parameters: animal.py and cell.py set_parameters            *)
(***************************************************************************)

\* the positional order of BaseAnimal.set_parameters, which is the order of
\* its checks
AnimalParamOrder ==
    <<"w_birth", "sigma_birth", "beta", "eta", "a_half", "phi_age",
      "w_half", "phi_weight", "mu", "lambda_", "gamma", "zeta", "xi",
      "omega", "F">>

AnimalParamNames == {AnimalParamOrder[i] : i \in 1..Len(AnimalParamOrder)}

\* the defaults in the signature of Herbivore.set_parameters
HerbivoreDefaults ==
    [w_birth |-> 8000, sigma_birth |-> 1500, beta |-> 900, eta |-> 50,
     a_half |-> 40000, phi_age |-> 200, w_half |-> 10000,
     phi_weight |-> 100, mu |-> 250, lambda_ |-> 1000, gamma |-> 200,
     zeta |-> 3500, xi |-> 1200, omega |-> 400, F |-> 10000]

\* the defaults in the signature of Carnivore.set_parameters, and the
\* DeltaPhiMax it puts in place of None
CarnivoreDefaults ==
    [w_birth |-> 6000, sigma_birth |-> 1000, beta |-> 750, eta |-> 125,
     a_half |-> 60000, phi_age |-> 400, w_half |-> 4000,
     phi_weight |-> 400, mu |-> 400, lambda_ |-> 1000, gamma |-> 800,
     zeta |-> 3500, xi |-> 1100, omega |-> 900, F |-> 50000,
     DeltaPhiMax |-> 10000]

SavannahDefaults == [f_max |-> 300000, alpha |-> 300]

JungleDefaults == [f_max |-> 800000]

\* BaseCell.set_parameters puts 0 in place of None: Desert, Mountain, Ocean
BaseCellDefaults == [f_max |-> 0]

DefaultParams ==
    [Herbivore |-> HerbivoreDefaults, Carnivore |-> CarnivoreDefaults,
     Savannah |-> SavannahDefaults, Jungle |-> JungleDefaults,
     Desert |-> BaseCellDefaults, Mountain |-> BaseCellDefaults,
     Ocean |-> BaseCellDefaults]

\* a slip in the range checks: mu is checked like every other constant
ValidAnimalParam_NoUpperBound(name, v) == v >= 0

\* the range checks of BaseAnimal.set_parameters
ValidAnimalParam(name, v) ==
    IF name = "mu" THEN 0 <= v /\ v <= 1000 ELSE v >= 0

\* BaseAnimal.set_parameters(cls, ...) on the class attributes old: the checks
\* run in order, each assigns its attribute or raises, so the attributes
\* before the first bad one are already assigned when it raises.
BaseAnimal_set_parameters(old, args) ==
    LET bad == {i \in 1..Len(AnimalParamOrder) :
                    ~ValidAnimalParam(AnimalParamOrder[i],
                                      args[AnimalParamOrder[i]])}
        k == IF bad = {} THEN Len(AnimalParamOrder) + 1 ELSE Min(bad)
        done == {AnimalParamOrder[i] : i \in 1..(k - 1)}
    IN  [attrs |-> [n \in DOMAIN old |->
                        IF n \in done THEN args[n] ELSE old[n]],
         raised |-> IF bad = {} THEN NoException
                    ELSE IF AnimalParamOrder[k] = "F"
                    THEN ValueError("f can not be a negative value.")
                    ELSE ValueError(AnimalParamOrder[k]
                                        \o " can not be a negative value.")]

\* the keyword arguments a call binds: the given value, else the default of
\* the signature
BindArgs(kwargs, defaults) ==
    [n \in AnimalParamNames |->
        IF n \in DOMAIN kwargs THEN kwargs[n] ELSE defaults[n]]

\* a slip in the setter: a parameter that is not named keeps the value it has
Herbivore_set_parameters_KeepsCurrent(old, kwargs) ==
    BaseAnimal_set_parameters(old, BindArgs(kwargs, old))

\* Herbivore.set_parameters(**kwargs): other names fall into **kwargs
Herbivore_set_parameters(old, kwargs) ==
    BaseAnimal_set_parameters(old, BindArgs(kwargs, HerbivoreDefaults))

\* Carnivore.set_parameters(**kwargs): the base checks, then DeltaPhiMax
Carnivore_set_parameters(old, kwargs) ==
    LET base == BaseAnimal_set_parameters(
                    old, BindArgs(kwargs, CarnivoreDefaults))
        DeltaPhiMax == IF "DeltaPhiMax" \in DOMAIN kwargs
                       THEN kwargs["DeltaPhiMax"]
                       ELSE CarnivoreDefaults["DeltaPhiMax"]
    IN  IF base.raised # NoException THEN base
        ELSE IF DeltaPhiMax <= 0
        THEN [attrs |-> base.attrs,
              raised |-> ValueError("delta_phi_max must be strictly positive.")]
        ELSE [attrs |-> [base.attrs EXCEPT !["DeltaPhiMax"] = DeltaPhiMax],
              raised |-> NoException]

\* BaseCell.set_parameters(cls, f_max)
BaseCell_set_parameters(old, f_max) ==
    IF f_max < 0
    THEN [attrs |-> old,
          raised |-> ValueError("f_max must be a positive number")]
    ELSE [attrs |-> [old EXCEPT !["f_max"] = f_max], raised |-> NoException]

\* Savannah.set_parameters(**kwargs): a name other than f_max and alpha is a
\* TypeError of the call itself
Savannah_set_parameters(old, kwargs) ==
    LET f_max == IF "f_max" \in DOMAIN kwargs THEN kwargs["f_max"]
                 ELSE SavannahDefaults["f_max"]
        alpha == IF "alpha" \in DOMAIN kwargs THEN kwargs["alpha"]
                 ELSE SavannahDefaults["alpha"]
        base == BaseCell_set_parameters(old, f_max)
    IN  IF ~(DOMAIN kwargs \subseteq {"f_max", "alpha"})
        THEN [attrs |-> old, raised |-> Raise("TypeError", "unexpected keyword argument")]
        ELSE IF base.raised # NoException THEN base
        ELSE IF alpha < 0
        THEN [attrs |-> base.attrs,
              raised |-> ValueError("alpha can not be negative.")]
        ELSE [attrs |-> [base.attrs EXCEPT !["alpha"] = alpha],
              raised |-> NoException]

\* Jungle.set_parameters(**kwargs)
Jungle_set_parameters(old, kwargs) ==
    LET f_max == IF "f_max" \in DOMAIN kwargs THEN kwargs["f_max"]
                 ELSE JungleDefaults["f_max"]
    IN  IF ~(DOMAIN kwargs \subseteq {"f_max"})
        THEN [attrs |-> old, raised |-> Raise("TypeError", "unexpected keyword argument")]
        ELSE BaseCell_set_parameters(old, f_max)

\* BioSim.set_animal_parameters(species, params): two ifs and no else
BioSim_set_animal_parameters(cp, species, params) ==
    IF species = "Herbivore"
    THEN LET r == Herbivore_set_parameters(cp["Herbivore"], params)
         IN  [cp |-> [cp EXCEPT !["Herbivore"] = r.attrs], raised |-> r.raised]
    ELSE IF species = "Carnivore"
    THEN LET r == Carnivore_set_parameters(cp["Carnivore"], params)
         IN  [cp |-> [cp EXCEPT !["Carnivore"] = r.attrs], raised |-> r.raised]
    ELSE [cp |-> cp, raised |-> NoException]

\* BioSim.set_landscape_parameters(landscape, params): two ifs and no else
BioSim_set_landscape_parameters(cp, landscape, params) ==
    IF landscape = "S"
    THEN LET r == Savannah_set_parameters(cp["Savannah"], params)
         IN  [cp |-> [cp EXCEPT !["Savannah"] = r.attrs], raised |-> r.raised]
    ELSE IF landscape = "J"
    THEN LET r == Jungle_set_parameters(cp["Jungle"], params)
         IN  [cp |-> [cp EXCEPT !["Jungle"] = r.attrs], raised |-> r.raised]
    ELSE [cp |-> cp, raised |-> NoException]

(***************************************************************************)
(* Animals: animal.py                                                      *)
(***************************************************************************)

\* An optional argument is <<>> (None, the default of the signature) or <<v>>.
None == <<>>

\* BaseAnimal.__init__(age, weight) for an object of class species with
\* identity id: the object made, or the exception
BaseAnimal_init(species, age_arg, weight_arg, id) ==
    LET age == IF age_arg = None THEN 0 ELSE age_arg[1]
        weight == IF weight_arg = None THEN 10000 ELSE weight_arg[1]
    IN  IF age < 0
        THEN [obj |-> <<>>,
              raised |-> ValueError("Age can not have negative value.")]
        ELSE IF weight < 0
        THEN [obj |-> <<>>,
              raised |-> ValueError("Weight can not have negative value")]
        ELSE [obj |-> <<[id |-> id, species |-> species, age |-> age,
                         weight |-> weight, has_migrated |-> FALSE]>>,
              raised |-> NoException]

\* 10000 / (1 + e^k) for k = 0, 1, ..., 10, rounded and kept above 0
LogisticTable == <<5000, 2689, 1192, 474, 180, 67, 25, 9, 3, 1, 1>>

\* 1 / (1 + e^x) in ten-thousandths, x in thousandths and x >= 0: between
\* two whole numbers the table is joined by a straight line
LogisticPos(x) ==
    IF x >= 10000 THEN LogisticTable[11]
    ELSE LET k == x \div 1000
             f == x % 1000
             lo == LogisticTable[k + 1]
             hi == LogisticTable[k + 2]
         IN  lo - ((lo - hi) * f) \div 1000

\* 1 / (1 + e^x) in ten-thousandths for any x in thousandths
Logistic(x) == IF x >= 0 THEN LogisticPos(x) ELSE 10000 - LogisticPos(-x)

\* fitness_calculator(phi_age, age, a_half, phi_weight, weight, w_half) in
\* ten-thousandths: the product of two logistic terms, which is above 0
fitness_calculator(phi_age, age, a_half, phi_weight, weight, w_half) ==
    LET age_sigma == Logistic((phi_age * (age * 1000 - a_half)) \div 1000)
        weight_sigma == Logistic(-((phi_weight * (weight - w_half)) \div 1000))
        product == (age_sigma * weight_sigma) \div 10000
    IN  IF product < 1 THEN 1 ELSE product

\* BaseAnimal.fitness of animal a under the class attributes cp: 0 for an
\* animal without weight
fitness(a, cp) ==
    IF a.weight > 0
    THEN fitness_calculator(cp[a.species].phi_age, a.age,
                            cp[a.species].a_half, cp[a.species].phi_weight,
                            a.weight, cp[a.species].w_half)
    ELSE 0

\* custom_binomial(p) for p = num / den: the values a draw x < p can take,
\* x uniform on [0, 1)
custom_binomial(num, den) ==
    IF num <= 0 THEN {0} ELSE IF num >= den THEN {1} ELSE {0, 1}

\* BaseAnimal.aging
aging(a) == [a EXCEPT !.age = @ + 1]

\* BaseAnimal.weight_gain(food)
weight_gain(a, food, cp) ==
    [a EXCEPT !.weight = @ + (cp[a.species].beta * food) \div 1000]

\* BaseAnimal.weight_loss
weight_loss(a, cp) ==
    [a EXCEPT !.weight = @ - (cp[a.species].eta * @) \div 1000]

\* BaseAnimal.weight_loss_birth(weight_offspring)
weight_loss_birth(a, weight_offspring, cp) ==
    [a EXCEPT !.weight = @ - (cp[a.species].xi * weight_offspring) \div 1000]

\* the p of BaseAnimal.prob_migration in units of 10^-7: mu * fitness
prob_migration_p(a, cp) == cp[a.species].mu * fitness(a, cp)

\* a slip in prob_death: the draw is made at fitness 0 too
prob_death_AlwaysDraws(a, cp) ==
    custom_binomial(cp[a.species].omega * (10000 - fitness(a, cp)), 10000000)

\* BaseAnimal.prob_death: 1 without a draw at fitness 0, else a draw with
\* p = omega * (1 - fitness)
prob_death(a, cp) ==
    IF fitness(a, cp) = 0 THEN {1}
    ELSE custom_binomial(cp[a.species].omega * (10000 - fitness(a, cp)),
                         10000000)

\* BaseAnimal.prob_procreation(n): 0 without a draw below the weight limit,
\* else a draw with p = min(1, gamma * fitness * (n - 1))
prob_procreation(a, n, cp) ==
    IF a.weight * 1000 <
           cp[a.species].zeta
               * (cp[a.species].w_birth + cp[a.species].sigma_birth)
    THEN {0}
    ELSE custom_binomial(cp[a.species].gamma * fitness(a, cp) * (n - 1),
                         10000000)

\* the formula of the docstring of prob_carnivore_kill: 0 where the
\* difference is DeltaPhiMax or more
prob_carnivore_kill_ZeroOtherwise(a, fitness_prey, cp) ==
    IF fitness(a, cp) <= fitness_prey THEN {0}
    ELSE IF (fitness(a, cp) - fitness_prey) * 1000
                < cp[a.species].DeltaPhiMax * 10000
    THEN custom_binomial((fitness(a, cp) - fitness_prey) * 1000,
                         cp[a.species].DeltaPhiMax * 10000)
    ELSE {0}

\* Carnivore.prob_carnivore_kill(fitness_prey): 0 if the carnivore is not
\* fitter, a draw with p = difference / DeltaPhiMax below DeltaPhiMax, else 1
prob_carnivore_kill(a, fitness_prey, cp) ==
    IF fitness(a, cp) <= fitness_prey THEN {0}
    ELSE IF (fitness(a, cp) - fitness_prey) * 1000
                < cp[a.species].DeltaPhiMax * 10000
    THEN custom_binomial((fitness(a, cp) - fitness_prey) * 1000,
                         cp[a.species].DeltaPhiMax * 10000)
    ELSE {1}

\* BaseAnimal.draw_birth_weight: a Gaussian draw repeated until it is above
\* 0; the model draws one standard deviation below or above the mean
draw_birth_weight(species, cp) ==
    {w \in {cp[species].w_birth - cp[species].sigma_birth,
            cp[species].w_birth + cp[species].sigma_birth} : w > 0}

(***************************************************************************)
(* Cells.  A cell is a record of its class name, its fodder, whether       *)
(* animals can enter it and the list of its animals.  A location is        *)
(* <<row, column>>, both counted from 0.                                   *)
(***************************************************************************)

\* Rossumoya.cell_code: the class behind each letter of the map
cell_code ==
    [code \in cell_codes |->
        CASE code = "S" -> "Savannah"
          [] code = "J" -> "Jungle"
          [] code = "D" -> "Desert"
          [] code = "O" -> "Ocean"
          [] code = "M" -> "Mountain"]

\* the constructors of the cell classes: the fodder starts at f_max of the
\* class, which the constructor has just put back to its default, and at 0
\* in Desert, Mountain and Ocean; Mountain and Ocean let no animal in
Cell_init(type) ==
    [type |-> type,
     fodder_in_cell |->
         IF type \in {"Savannah", "Jungle"} THEN DefaultParams[type].f_max
         ELSE 0,
     animal_can_enter |-> type \notin {"Mountain", "Ocean"},
     animals |-> <<>>]

\* Rossumoya.make_geography_coordinates(input_map)
make_geography_coordinates(input_map) ==
    LET rows == SplitLines(input_map)
    IN  [loc \in {<<i, j>> : i \in 0..(Len(rows) - 1),
                             j \in 0..(Len(rows[1]) - 1)} |->
            Cell_init(cell_code[rows[loc[1] + 1][loc[2] + 1]])]

\* the rows and columns of an island, and its locations in the order the
\* dictionary island_map holds them: row by row
NumRows(isl) == 1 + CHOOSE i \in 0..Cardinality(DOMAIN isl) :
                        /\ \E loc \in DOMAIN isl : loc[1] = i
                        /\ \A loc \in DOMAIN isl : loc[1] <= i

NumCols(isl) == Cardinality(DOMAIN isl) \div NumRows(isl)

NumCells(isl) == Cardinality(DOMAIN isl)

LocAt(isl, k) == <<(k - 1) \div NumCols(isl), (k - 1) % NumCols(isl)>>

\* BaseCell.total_population, total_herbivores, total_carnivores
OfSpecies(animals, species) ==
    SelectSeq(animals, LAMBDA a : a.species = species)

total_population(cell) == Len(cell.animals)

total_herbivores(cell) == Len(OfSpecies(cell.animals, "Herbivore"))

\* a slip in total_carnivores: the species is not looked at
total_carnivores_CountsAll(cell) == Len(cell.animals)

total_carnivores(cell) == Len(OfSpecies(cell.animals, "Carnivore"))

\* the animal objects of a cell, by identity
Ids(animals) == {animals[k].id : k \in 1..Len(animals)}

AnimalWithId(animals, id) ==
    animals[CHOOSE k \in 1..Len(animals) : animals[k].id = id]

\* a slip in BaseCell.remove_animals: nothing is taken off the list
remove_animals_Nothing(animals, gone) == animals

\* a slip in BaseCell.add_animals: an animal that arrives is aged
add_animals_AgesArrivals(animals, new_animals) ==
    animals \o [k \in 1..Len(new_animals) |->
                   [new_animals[k] EXCEPT !.age = @ + 1]]

\* BaseCell.remove_animals(gone_animals) and BaseCell.add_animals
remove_animals(animals, gone) ==
    SelectSeq(animals, LAMBDA a : a.id \notin gone)

add_animals(animals, new_animals) == animals \o new_animals

\* every animal on the island with the location of its cell
AllAnimals(isl) ==
    UNION {{[loc |-> loc, animal |-> isl[loc].animals[k]] :
                k \in 1..Len(isl[loc].animals)} : loc \in DOMAIN isl}

(***************************************************************************)
(* Placing animals.  The results are records of what the call left behind  *)
(* and the exception it raised: animals placed before the exception stay.  *)
(***************************************************************************)

\* BaseCell.add_population(pop_list) on the list animals: a species other
\* than the two known ones is passed over
RECURSIVE BaseCell_add_population(_, _, _)
BaseCell_add_population(animals, pop_list, id) ==
    IF pop_list = <<>>
    THEN [animals |-> animals, next_id |-> id, raised |-> NoException]
    ELSE LET pop_dict == Head(pop_list)
             made == BaseAnimal_init(pop_dict.species, pop_dict.age,
                                     pop_dict.weight, id)
         IN  IF pop_dict.species \notin {"Herbivore", "Carnivore"}
             THEN BaseCell_add_population(animals, Tail(pop_list), id)
             ELSE IF made.raised # NoException
             THEN [animals |-> animals, next_id |-> id,
                   raised |-> made.raised]
             ELSE BaseCell_add_population(animals \o made.obj,
                                          Tail(pop_list), id + 1)

\* a slip in Rossumoya.add_population: every cell takes animals
animal_can_enter_Anywhere(cell) == TRUE

\* the test Rossumoya.add_population makes before it places a record
animal_can_enter(cell) == cell.animal_can_enter

\* Rossumoya.add_population(population) on the island isl
RECURSIVE Rossumoya_add_population(_, _, _)
Rossumoya_add_population(isl, population, id) ==
    IF population = <<>>
    THEN [island |-> isl, next_id |-> id, raised |-> NoException]
    ELSE LET cell_dict == Head(population)
             location == cell_dict.loc
             added == BaseCell_add_population(isl[location].animals,
                                              cell_dict.pop, id)
             placed == [isl EXCEPT ![location].animals = added.animals]
         IN  IF ~animal_can_enter(isl[location])
             THEN [island |-> isl, next_id |-> id,
                   raised |-> ValueError("Cant place animal")]
             ELSE IF added.raised # NoException
             THEN [island |-> placed, next_id |-> added.next_id,
                   raised |-> added.raised]
             ELSE Rossumoya_add_population(placed, Tail(population),
                                           added.next_id)

\* the sum of the numbers count gives to the locations locs, taken row by
\* row
RECURSIVE SumOverRow(_, _)
SumOverRow(count, row) ==
    IF row = {} THEN 0
    ELSE LET loc == CHOOSE l \in row : TRUE
         IN  count[loc] + SumOverRow(count, row \ {loc})

RECURSIVE SumOver(_, _)
SumOver(count, locs) ==
    IF locs = {} THEN 0
    ELSE LET first == CHOOSE l \in locs : TRUE
             row == {l \in locs : l[1] = first[1]}
         IN  SumOverRow(count, row) + SumOver(count, locs \ row)

\* BioSim.num_animals: total_population summed over the cells
num_animals(isl) ==
    SumOver([loc \in DOMAIN isl |-> total_population(isl[loc])], DOMAIN isl)

(***************************************************************************)
(* The operations of a cell on its fodder and its animals.                 *)
(***************************************************************************)

\* regrow_fodder: Savannah grows by alpha of what is missing, every other
\* class goes back to its f_max
regrow_fodder(cell, cp) ==
    IF cell.type = "Savannah"
    THEN [cell EXCEPT !.fodder_in_cell =
             @ + (cp.Savannah.alpha * (cp.Savannah.f_max - @)) \div 1000]
    ELSE [cell EXCEPT !.fodder_in_cell = cp[cell.type].f_max]

\* sorted(list, key=fitness, reverse=True): equal animals keep their order
RECURSIVE InsertByFitness(_, _, _)
InsertByFitness(sorted, a, cp) ==
    IF sorted = <<>> THEN <<a>>
    ELSE IF fitness(Head(sorted), cp) >= fitness(a, cp)
    THEN <<Head(sorted)>> \o InsertByFitness(Tail(sorted), a, cp)
    ELSE <<a>> \o sorted

RECURSIVE SortedByFitness(_, _)
SortedByFitness(list, cp) ==
    IF list = <<>> THEN <<>>
    ELSE InsertByFitness(SortedByFitness(SubSeq(list, 1, Len(list) - 1), cp),
                         list[Len(list)], cp)

\* BaseCell.list_of_sorted_herbivores_by_fitness and its carnivore twin
list_of_sorted_herbivores_by_fitness(cell, cp) ==
    SortedByFitness(OfSpecies(cell.animals, "Herbivore"), cp)

list_of_sorted_carnivores_by_fitness(cell, cp) ==
    SortedByFitness(OfSpecies(cell.animals, "Carnivore"), cp)

\* a slip in carnivores_eat: the herbivores are not turned round
Reversed_Same(list) == list

Reversed(list) == [k \in 1..Len(list) |-> list[Len(list) + 1 - k]]

IdsOf(list) == [k \in 1..Len(list) |-> list[k].id]

\* the list animals with the animal of identity id replaced by b
Replace(animals, id, b) ==
    [k \in 1..Len(animals) |-> IF animals[k].id = id THEN b ELSE animals[k]]

\* a slip in the loop of herbivores_eat: every herbivore eats F, whatever
\* fodder is left
RECURSIVE HerbivoresEatLoop_AlwaysF(_, _, _)
HerbivoresEatLoop_AlwaysF(cell, eaters, cp) ==
    IF eaters = <<>> THEN cell
    ELSE LET herbivore == AnimalWithId(cell.animals, Head(eaters))
         IN  HerbivoresEatLoop_AlwaysF(
                 [cell EXCEPT
                     !.fodder_in_cell = @ - cp.Herbivore.F,
                     !.animals = Replace(@, herbivore.id,
                                         weight_gain(herbivore,
                                                     cp.Herbivore.F, cp))],
                 Tail(eaters), cp)

\* the loop of BaseCell.herbivores_eat over the herbivores still to eat
RECURSIVE HerbivoresEatLoop(_, _, _)
HerbivoresEatLoop(cell, eaters, cp) ==
    IF eaters = <<>> THEN cell
    ELSE LET herbivore == AnimalWithId(cell.animals, Head(eaters))
             food == IF cell.fodder_in_cell >= cp.Herbivore.F
                     THEN cp.Herbivore.F ELSE cell.fodder_in_cell
         IN  HerbivoresEatLoop(
                 [cell EXCEPT
                     !.fodder_in_cell = @ - food,
                     !.animals = Replace(@, herbivore.id,
                                         weight_gain(herbivore, food, cp))],
                 Tail(eaters), cp)

\* BaseCell.herbivores_eat
herbivores_eat(cell, cp) ==
    IF cell.fodder_in_cell # 0
    THEN HerbivoresEatLoop(
             cell, IdsOf(list_of_sorted_herbivores_by_fitness(cell, cp)), cp)
    ELSE cell

(***************************************************************************)
(* The loops of a year, one step at a time.  frame holds the local         *)
(* variables of the loop that is running: ci is the place of the cell in   *)
(* the island's order, queue the animals the loop still has to take, prey  *)
(* the herbivores the hunting carnivore has not yet tried, food_eaten and  *)
(* killed_herbivores as in carnivores_eat, stage and idx the place in      *)
(* procreation and n the head count taken when a breeding loop began.      *)
(***************************************************************************)

NoFrame ==
    [ci |-> 1, queue |-> <<>>, prey |-> <<>>, food_eaten |-> 0,
     killed_herbivores |-> {}, stage |-> "herbs?", idx |-> 1, n |-> 0]

\* the first place k >= ci whose cell has herbivores, 0 if there is none
NextCellWithHerbivores(isl, ci) ==
    LET found == {k \in ci..NumCells(isl) :
                     total_herbivores(isl[LocAt(isl, k)]) > 0}
    IN  IF found = {} THEN 0 ELSE Min(found)

\* the first place k >= ci whose cell has animals, 0 if there is none
NextCellWithAnimals(isl, ci) ==
    LET found == {k \in ci..NumCells(isl) :
                     total_population(isl[LocAt(isl, k)]) > 0}
    IN  IF found = {} THEN 0 ELSE Min(found)

\* carnivores_eat when a carnivore begins: nothing eaten, nothing killed,
\* the herbivores of the cell from the least fit to the fittest
HuntFrame(cell, fr, carnivores, cp) ==
    [fr EXCEPT
        !.queue = carnivores,
        !.prey = Reversed(IdsOf(
                     list_of_sorted_herbivores_by_fitness(cell, cp))),
        !.food_eaten = 0,
        !.killed_herbivores = {}]

\* carnivores_eat up to the next kill that has to be tried: a carnivore
\* that is through with its herbivores or has eaten F gains weight, its
\* prey is removed, and the next carnivore begins
RECURSIVE HuntSettle(_, _, _)
HuntSettle(cell, fr, cp) ==
    IF fr.queue = <<>> THEN [cell |-> cell, frame |-> fr, done |-> TRUE]
    ELSE IF fr.prey # <<>> /\ fr.food_eaten < cp.Carnivore.F
    THEN [cell |-> cell, frame |-> fr, done |-> FALSE]
    ELSE LET carnivore == AnimalWithId(cell.animals, Head(fr.queue))
             fed == Replace(cell.animals, carnivore.id,
                            weight_gain(carnivore, fr.food_eaten, cp))
             after == [cell EXCEPT
                          !.animals =
                              remove_animals(fed, fr.killed_herbivores)]
         IN  HuntSettle(after, HuntFrame(after, fr, Tail(fr.queue), cp), cp)

\* a slip in carnivores_eat: the food eaten is not held at F
KillStep_NoCap(cell, fr, kill, cp) ==
    LET herbivore == AnimalWithId(cell.animals, Head(fr.prey))
    IN  IF kill = 1
        THEN [fr EXCEPT
                 !.prey = Tail(@),
                 !.killed_herbivores = @ \cup {herbivore.id},
                 !.food_eaten = @ + herbivore.weight]
        ELSE [fr EXCEPT !.prey = Tail(@)]

\* one pass of the inner loop of carnivores_eat with the draw kill
KillStep(cell, fr, kill, cp) ==
    LET carnivore == AnimalWithId(cell.animals, Head(fr.queue))
        herbivore == AnimalWithId(cell.animals, Head(fr.prey))
        weight_prey == herbivore.weight
    IN  IF kill = 1
        THEN [fr EXCEPT
                 !.prey = Tail(@),
                 !.killed_herbivores = @ \cup {herbivore.id},
                 !.food_eaten =
                     IF @ + weight_prey > cp.Carnivore.F
                     THEN cp.Carnivore.F ELSE @ + weight_prey]
        ELSE [fr EXCEPT !.prey = Tail(@)]

\* a slip in the breeding loops: the animals of the species are counted
\* anew for every animal that is asked
RECURSIVE ProcreationSettle_Recounts(_, _)
ProcreationSettle_Recounts(isl, fr) ==
    IF fr.ci > NumCells(isl) THEN [frame |-> fr, done |-> TRUE]
    ELSE LET cell == isl[LocAt(isl, fr.ci)]
         IN  CASE fr.stage = "herbs?" ->
                    IF total_herbivores(cell) > 1
                    THEN ProcreationSettle_Recounts(isl,
                             [fr EXCEPT !.stage = "herbs", !.idx = 1,
                                        !.n = total_herbivores(cell)])
                    ELSE ProcreationSettle_Recounts(isl,
                             [fr EXCEPT !.stage = "carns?"])
               [] fr.stage = "carns?" ->
                    IF total_carnivores(cell) > 1
                    THEN ProcreationSettle_Recounts(isl,
                             [fr EXCEPT !.stage = "carns", !.idx = 1,
                                        !.n = total_carnivores(cell)])
                    ELSE ProcreationSettle_Recounts(isl,
                             [fr EXCEPT !.stage = "herbs?", !.ci = @ + 1])
               [] fr.stage = "herbs" ->
                    IF fr.idx > Len(cell.animals)
                    THEN ProcreationSettle_Recounts(isl,
                             [fr EXCEPT !.stage = "carns?"])
                    ELSE IF cell.animals[fr.idx].species # "Herbivore"
                    THEN ProcreationSettle_Recounts(isl, [fr EXCEPT !.idx = @ + 1])
                    ELSE [frame |-> [fr EXCEPT !.n = total_herbivores(cell)],
                          done |-> FALSE]
               [] fr.stage = "carns" ->
                    IF fr.idx > Len(cell.animals)
                    THEN ProcreationSettle_Recounts(isl,
                             [fr EXCEPT !.stage = "herbs?", !.ci = @ + 1])
                    ELSE IF cell.animals[fr.idx].species # "Carnivore"
                    THEN ProcreationSettle_Recounts(isl, [fr EXCEPT !.idx = @ + 1])
                    ELSE [frame |-> [fr EXCEPT !.n = total_carnivores(cell)],
                          done |-> FALSE]

\* Rossumoya.procreation up to the next animal that is asked whether it
\* gives birth: the cells in order, in each the herbivores if there is more
\* than one, then the carnivores if there is more than one; the breeding
\* loops walk the list animals itself, newborn included
RECURSIVE ProcreationSettle(_, _)
ProcreationSettle(isl, fr) ==
    IF fr.ci > NumCells(isl) THEN [frame |-> fr, done |-> TRUE]
    ELSE LET cell == isl[LocAt(isl, fr.ci)]
         IN  CASE fr.stage = "herbs?" ->
                    IF total_herbivores(cell) > 1
                    THEN ProcreationSettle(isl,
                             [fr EXCEPT !.stage = "herbs", !.idx = 1,
                                        !.n = total_herbivores(cell)])
                    ELSE ProcreationSettle(isl,
                             [fr EXCEPT !.stage = "carns?"])
               [] fr.stage = "carns?" ->
                    IF total_carnivores(cell) > 1
                    THEN ProcreationSettle(isl,
                             [fr EXCEPT !.stage = "carns", !.idx = 1,
                                        !.n = total_carnivores(cell)])
                    ELSE ProcreationSettle(isl,
                             [fr EXCEPT !.stage = "herbs?", !.ci = @ + 1])
               [] fr.stage = "herbs" ->
                    IF fr.idx > Len(cell.animals)
                    THEN ProcreationSettle(isl,
                             [fr EXCEPT !.stage = "carns?"])
                    ELSE IF cell.animals[fr.idx].species # "Herbivore"
                    THEN ProcreationSettle(isl, [fr EXCEPT !.idx = @ + 1])
                    ELSE [frame |-> fr, done |-> FALSE]
               [] fr.stage = "carns" ->
                    IF fr.idx > Len(cell.animals)
                    THEN ProcreationSettle(isl,
                             [fr EXCEPT !.stage = "herbs?", !.ci = @ + 1])
                    ELSE IF cell.animals[fr.idx].species # "Carnivore"
                    THEN ProcreationSettle(isl, [fr EXCEPT !.idx = @ + 1])
                    ELSE [frame |-> fr, done |-> FALSE]

\* a slip in add_offspring: the weight of the mother is not looked at
add_offspring_Always(cell, animal, weight, id, cp) ==
    LET added == BaseCell_add_population(
                     cell.animals,
                     <<[species |-> animal.species, age |-> <<0>>,
                        weight |-> <<weight>>]>>,
                     id)
    IN  [animals |-> Replace(added.animals, animal.id,
                             weight_loss_birth(animal, weight, cp)),
         next_id |-> added.next_id]

\* BaseCell.add_offspring(animal) with the birth weight drawn: the young is
\* added and the mother loses weight if the mother is heavy enough
add_offspring(cell, animal, weight, id, cp) ==
    IF weight * cp[animal.species].xi < animal.weight * 1000
    THEN LET added == BaseCell_add_population(
                          cell.animals,
                          <<[species |-> animal.species, age |-> <<0>>,
                             weight |-> <<weight>>]>>,
                          id)
         IN  [animals |-> Replace(added.animals, animal.id,
                                  weight_loss_birth(animal, weight, cp)),
              next_id |-> added.next_id]
    ELSE [animals |-> cell.animals, next_id |-> id]

(***************************************************************************)
(* Migration.                                                              *)
(***************************************************************************)

\* e^x in thousandths for x >= 0 in thousandths, from the logistic table:
\* e^x = (1 - s) / s for s = 1 / (1 + e^x)
Exp(x) == ((10000 - LogisticPos(x)) * 1000) \div LogisticPos(x)

\* BaseCell.abundance_of_fodder_herbivores and _carnivores, in thousandths
RECURSIVE SumWeights(_)
SumWeights(animals) ==
    IF animals = <<>> THEN 0
    ELSE Head(animals).weight + SumWeights(Tail(animals))

abundance_of_fodder_herbivores(cell, cp) ==
    (cell.fodder_in_cell * 1000)
        \div ((total_herbivores(cell) + 1) * cp.Herbivore.F)

abundance_of_fodder_carnivores(cell, cp) ==
    (SumWeights(OfSpecies(cell.animals, "Herbivore")) * 1000)
        \div ((total_carnivores(cell) + 1) * cp.Carnivore.F)

\* a slip in the propensities: Mountain and Ocean computed like any cell
propensity_migration_EveryCell(cell, species, cp) ==
    IF species = "Herbivore"
    THEN Exp((cp.Herbivore.lambda_
                  * abundance_of_fodder_herbivores(cell, cp)) \div 1000)
    ELSE Exp((cp.Carnivore.lambda_
                  * abundance_of_fodder_carnivores(cell, cp)) \div 1000)

\* propensity_migration_herb and propensity_migration_carn of the cell
\* classes: 0 for Mountain and Ocean
propensity_migration(cell, species, cp) ==
    IF cell.type \in {"Mountain", "Ocean"} THEN 0
    ELSE IF species = "Herbivore"
    THEN Exp((cp.Herbivore.lambda_
                  * abundance_of_fodder_herbivores(cell, cp)) \div 1000)
    ELSE Exp((cp.Carnivore.lambda_
                  * abundance_of_fodder_carnivores(cell, cp)) \div 1000)

\* a slip in the locations: the right neighbour is taken one row down
locations_RightOneDown(loc) ==
    <<<<loc[1], loc[2] - 1>>, <<loc[1] + 1, loc[2] + 1>>,
      <<loc[1] - 1, loc[2]>>, <<loc[1] + 1, loc[2]>>>>

\* MigrationProbabilityCalculator.locations: left, right, up, down
locations(loc) ==
    <<<<loc[1], loc[2] - 1>>, <<loc[1], loc[2] + 1>>,
      <<loc[1] - 1, loc[2]>>, <<loc[1] + 1, loc[2]>>>>

\* MigrationProbabilityCalculator.propensity_herb / propensity_carn
propensities(isl, loc, species, cp) ==
    [k \in 1..4 |-> propensity_migration(isl[locations(loc)[k]], species, cp)]

sum_propensities(isl, loc, species, cp) ==
    propensities(isl, loc, species, cp)[1]
        + propensities(isl, loc, species, cp)[2]
        + propensities(isl, loc, species, cp)[3]
        + propensities(isl, loc, species, cp)[4]

\* Rossumoya.choose_cell(loc, species): the locations random.choices can
\* return, those of weight above 0, after the probabilities are computed,
\* which divides by the sum of the propensities
choose_cell(isl, loc, species, cp) ==
    IF sum_propensities(isl, loc, species, cp) = 0
    THEN [raised |-> Raise("ZeroDivisionError", "division by zero"),
          choices |-> {}]
    ELSE [raised |-> NoException,
          choices |-> {locations(loc)[k] : k \in
                          {j \in 1..4 :
                              propensities(isl, loc, species, cp)[j] > 0}}]

\* BaseCell.__init__: nothing is cached.  A value left behind by an earlier
\* calculation is read only while its flag is True, so it is noted as 0
\* whenever the flag is False
NoPropensity ==
    [herb_calculated |-> FALSE, herb |-> 0,
     carn_calculated |-> FALSE, carn |-> 0]

NoPropensityCache(isl) ==
    [cells |-> [loc \in DOMAIN isl |-> NoPropensity], read |-> <<>>]

\* propensity_migration_herb and propensity_migration_carn with their
\* cache: what the property returns.  Mountain and Ocean return 0
cached_propensity(cell, cache, species, cp) ==
    IF cell.type \in {"Mountain", "Ocean"} THEN 0
    ELSE IF species = "Herbivore"
    THEN IF cache.herb_calculated THEN cache.herb
         ELSE propensity_migration(cell, species, cp)
    ELSE IF cache.carn_calculated THEN cache.carn
         ELSE propensity_migration(cell, species, cp)

\* MigrationProbabilityCalculator.propensity_herb / propensity_carn: the
\* four propensities read, each beside the value computed from the cell as
\* it is
propensities_read(isl, cells, loc, species, cp) ==
    [k \in 1..4 |->
        [loc |-> locations(loc)[k],
         used |-> cached_propensity(isl[locations(loc)[k]],
                                    cells[locations(loc)[k]], species, cp),
         fresh |-> propensity_migration(isl[locations(loc)[k]], species,
                                        cp)]]

\* the caches after the four reads: the value read is kept and the flag set
cache_after_read(isl, cells, loc, species, cp) ==
    [l \in DOMAIN cells |->
        IF \/ \A k \in 1..4 : locations(loc)[k] # l
           \/ isl[l].type \in {"Mountain", "Ocean"}
        THEN cells[l]
        ELSE IF species = "Herbivore"
        THEN [cells[l] EXCEPT
                 !.herb_calculated = TRUE,
                 !.herb = cached_propensity(isl[l], cells[l], species, cp)]
        ELSE [cells[l] EXCEPT
                 !.carn_calculated = TRUE,
                 !.carn = cached_propensity(isl[l], cells[l], species, cp)]]

\* Rossumoya.migrate: both flags of the new cell are cleared after every
\* move, those of the old cell after the last animal of the list
migrate_cache(cells, old_loc, new_loc, last) ==
    [l \in DOMAIN cells |->
        IF l = new_loc \/ (last /\ l = old_loc) THEN NoPropensity
        ELSE cells[l]]

\* BaseCell.regrow_fodder clears the herbivore flag; Savannah.regrow_fodder
\* does not
regrow_fodder_cache(cell, cache) ==
    IF cell.type = "Savannah" THEN cache
    ELSE [cache EXCEPT !.herb_calculated = FALSE, !.herb = 0]

(***************************************************************************)
(* The simulation: BioSim with its island, add_population and simulate,    *)
(* the year of Rossumoya.single_year taken loop by loop.                   *)
(***************************************************************************)

NoParams == [x \in {} |-> 0]

NoCall == [op |-> "none", target |-> "", args |-> NoParams, result |-> <<>>]

MaxYear == 2

MaxAddCalls == 1

\* the animals on the island when a run past the first year is begun
MaxLongRunAnimals == 1

Individual(species, age, weight) ==
    [species |-> species, age |-> <<age>>, weight |-> <<weight>>]

HerbStrong == Individual("Herbivore", 5, 40000)

HerbWeak == Individual("Herbivore", 50, 5000)

Carn == Individual("Carnivore", 5, 30000)

\* the lists of individuals a record of a population holds
PopLists ==
    {<<HerbStrong>>, <<HerbStrong, HerbStrong>>, <<HerbWeak, Carn>>,
     <<Carn, Carn>>,
     <<HerbStrong, Individual("Herbivore", -1, 10000)>>,
     <<Individual("Dog", 3, 10000), Carn>>,
     <<Individual("Carnivore", 5, -1000)>>}

\* the locations a record names: the inner cells of the maps and a corner,
\* all of them on every map of SimMaps
PopLocs == {<<1, 1>>, <<1, 2>>, <<2, 1>>, <<2, 2>>, <<0, 0>>}

\* the population arguments of add_population
Populations ==
    {<<>>}
        \cup {<<[loc |-> loc, pop |-> pop]>> : loc \in PopLocs,
                                               pop \in PopLists}
        \cup {<<[loc |-> l1, pop |-> <<HerbStrong>>],
                [loc |-> l2, pop |-> <<Carn>>]>> : l1, l2 \in PopLocs}

NoMoves == [id \in {} |-> <<>>]

\* no simulate call has been made
NoSimLog == [num_years |-> 0, raised |-> 0, year |-> 0, years_started |-> 0]

\* no animal object outside the cells
NoAnimal == <<>>

\* the state BioSim(island_map=m, ini_pop=ini_pop, seed=seed) leaves behind:
\* the seed goes to NumPy's generator, the island is built on the checked
\* map, the initial population placed and the parameters put back to their
\* defaults
BioSim_init(m, ini_pop, seed) ==
    LET built == Rossumoya_add_population(make_geography_coordinates(m),
                                          ini_pop, 1)
    IN  /\ map_arg = m
        /\ map_result = check_map_input(m)
        /\ class_params = DefaultParams
        /\ prev_params = DefaultParams
        /\ raised = built.raised
        /\ last_call = NoCall
        /\ n_calls = 0
        /\ island = built.island
        /\ year = 0
        /\ final_year = 0
        /\ pc = "idle"
        /\ frame = NoFrame
        /\ next_id = built.next_id
        /\ years_started = 0
        /\ phases_run = <<>>
        /\ moves = NoMoves
        /\ n_adds = 0
        /\ sim_args = [island_map |-> m, ini_pop |-> ini_pop, seed |-> seed]
        /\ np_random_seed = seed
        /\ first_run = <<>>
        /\ sim_log = NoSimLog
        /\ propensity_cache = NoPropensityCache(built.island)
        /\ lone_animal = NoAnimal

\* seed=1, the default of BioSim
default_seed == 1

\* BioSim.add_population(population)
AddPopulation ==
    /\ pc = "idle"
    /\ n_adds < MaxAddCalls
    /\ \E population \in Populations :
        LET r == Rossumoya_add_population(island, population, next_id)
        IN  /\ island' = r.island
            /\ next_id' = r.next_id
            /\ raised' = r.raised
            /\ last_call' = [op |-> "add_population", target |-> "",
                             args |-> population, result |-> r.raised]
    /\ n_adds' = n_adds + 1
    /\ UNCHANGED <<year, final_year, pc, frame, years_started, phases_run,
                   moves, sim_log, propensity_cache,
                   lone_animal>>
    /\ UNCHANGED <<class_params, prev_params, n_calls>>
    /\ UNCHANGED seedVars
    /\ UNCHANGED mapVars

\* a slip in simulate: the last year is num_years, not _year + num_years
simulate_final_year_FromZero(year_now, num_years) == num_years

\* the _final_year BioSim.simulate sets
simulate_final_year(year_now, num_years) == year_now + num_years

\* BioSim.simulate(num_years) up to its loop; the model runs an island past
\* its first year only if it holds few animals
Simulate ==
    /\ pc = "idle"
    /\ \E num_years \in 0..MaxYear :
        /\ years_started + num_years <= MaxYear
        /\ years_started + num_years > 1 =>
               num_animals(island) <= MaxLongRunAnimals
        /\ final_year' = simulate_final_year(year, num_years)
        /\ last_call' = [op |-> "simulate", target |-> "",
                         args |-> num_years, result |-> NoException]
        /\ sim_log' = [num_years |-> sim_log.num_years + num_years,
                       raised |-> sim_log.raised,
                       year |-> year,
                       years_started |-> years_started]
    /\ pc' = "loop"
    /\ raised' = NoException
    /\ UNCHANGED <<island, year, frame, next_id, years_started, phases_run,
                   moves, n_adds, propensity_cache,
                   lone_animal>>
    /\ UNCHANGED <<class_params, prev_params, n_calls>>
    /\ UNCHANGED seedVars
    /\ UNCHANGED mapVars

\* the statements of Rossumoya.single_year in the order they are written
single_year_order ==
    <<"regrow", "feed", "procreate", "migrate", "reset", "age", "death">>

\* a slip in single_year: migration before procreation
phase_after_MigrationFirst(p) ==
    CASE p = "regrow" -> "feed"
      [] p = "feed" -> "migrate"
      [] p = "migrate" -> "procreate"
      [] p = "procreate" -> "reset"
      [] p = "reset" -> "age"
      [] p = "age" -> "death"
      [] p = "death" -> "return"

\* the statement single_year goes on with after statement p
phase_after(p) ==
    LET k == CHOOSE j \in 1..Len(single_year_order) :
                 single_year_order[j] = p
    IN  IF k = Len(single_year_order) THEN "return"
        ELSE single_year_order[k + 1]

\* statement p of single_year is through: on to the next one, or back to
\* the loop of simulate, which counts the year.  To be used after island'
\* is given: when migration comes next, moves notes where every animal is
Goto(p) ==
    /\ phases_run' = Append(phases_run, p)
    /\ frame' = NoFrame
    /\ IF phase_after(p) = "return"
       THEN pc' = "loop" /\ year' = year + 1
       ELSE pc' = phase_after(p) /\ UNCHANGED year
    /\ IF phase_after(p) = "migrate"
       THEN moves' = [id \in {x.animal.id : x \in AllAnimals(island')} |->
                         <<(CHOOSE x \in AllAnimals(island') :
                                x.animal.id = id).loc>>]
       ELSE UNCHANGED moves

\* the test of the while loop of simulate and the call of single_year
WhileYear ==
    /\ pc = "loop"
    /\ IF year < final_year
       THEN /\ pc' = single_year_order[1]
            /\ years_started' = years_started + 1
            /\ phases_run' = <<>>
            /\ moves' = NoMoves
       ELSE /\ pc' = "idle"
            /\ UNCHANGED <<years_started, phases_run, moves>>
    /\ UNCHANGED <<island, year, final_year, frame, next_id, n_adds,
                   sim_log, propensity_cache,
                   lone_animal>>
    /\ UNCHANGED paramVars
    /\ UNCHANGED seedVars
    /\ UNCHANGED mapVars

\* what every step of single_year leaves alone
YearFrame ==
    /\ UNCHANGED <<final_year, years_started, n_adds>>
    /\ UNCHANGED seedVars
    /\ UNCHANGED <<class_params, prev_params, last_call, n_calls>>
    /\ UNCHANGED mapVars

\* single_year, first loop: fodder regrows in every cell
RegrowFodder ==
    /\ pc = "regrow"
    /\ island' = [loc \in DOMAIN island |->
                     regrow_fodder(island[loc], class_params)]
    /\ propensity_cache' =
         [propensity_cache EXCEPT !.cells =
             [loc \in DOMAIN island |->
                 regrow_fodder_cache(island[loc], @[loc])]]
    /\ Goto("regrow")
    /\ UNCHANGED <<next_id, raised>>
    /\ YearFrame
    /\ UNCHANGED <<sim_log, lone_animal>>

\* single_year, second loop, one cell with herbivores: the herbivores eat,
\* and if the cell has carnivores carnivores_eat begins
FeedCell ==
    /\ pc = "feed"
    /\ LET k == NextCellWithHerbivores(island, frame.ci)
           loc == LocAt(island, k)
           fed == herbivores_eat(island[loc], class_params)
       IN  IF k = 0
           THEN UNCHANGED island /\ Goto("feed")
           ELSE /\ island' = [island EXCEPT ![loc] = fed]
                /\ UNCHANGED <<year, phases_run, moves>>
                /\ IF total_carnivores(fed) > 0
                   THEN /\ pc' = "hunt"
                        /\ frame' =
                             HuntFrame(fed, [frame EXCEPT !.ci = k],
                                 IdsOf(list_of_sorted_carnivores_by_fitness(
                                           fed, class_params)),
                                 class_params)
                   ELSE /\ pc' = "feed"
                        /\ frame' = [frame EXCEPT !.ci = k + 1]
    /\ UNCHANGED <<next_id, raised>>
    /\ YearFrame
    /\ UNCHANGED <<sim_log, propensity_cache, lone_animal>>

\* carnivores_eat in the cell at frame.ci: the next kill is tried, or the
\* carnivores are through and the second loop goes on with the next cell
KillAttempt ==
    /\ pc = "hunt"
    /\ LET loc == LocAt(island, frame.ci)
           settled == HuntSettle(island[loc], frame, class_params)
           carnivore == AnimalWithId(settled.cell.animals,
                                     Head(settled.frame.queue))
           herbivore == AnimalWithId(settled.cell.animals,
                                     Head(settled.frame.prey))
       IN  IF settled.done
           THEN /\ island' = [island EXCEPT ![loc] = settled.cell]
                /\ pc' = "feed"
                /\ frame' = [NoFrame EXCEPT !.ci = frame.ci + 1]
           ELSE \E kill \in prob_carnivore_kill(
                                carnivore,
                                fitness(herbivore, class_params),
                                class_params) :
                    /\ island' = [island EXCEPT ![loc] = settled.cell]
                    /\ pc' = "hunt"
                    /\ frame' = KillStep(settled.cell, settled.frame, kill,
                                         class_params)
    /\ UNCHANGED <<year, phases_run, next_id, moves, raised>>
    /\ YearFrame
    /\ UNCHANGED <<sim_log, propensity_cache, lone_animal>>

\* the animal objects the model follows: no birth is followed beyond
MaxAnimalObjects == 8

\* Rossumoya.procreation: the next animal of a breeding loop is asked
\* whether it gives birth, or the loops are through
ProcreateStep ==
    /\ pc = "procreate"
    /\ LET settled == ProcreationSettle(island, frame)
           fr == settled.frame
           loc == LocAt(island, fr.ci)
           animal == island[loc].animals[fr.idx]
       IN  IF settled.done
           THEN UNCHANGED <<island, next_id>> /\ Goto("procreate")
           ELSE /\ \E animal_gives_birth \in
                          prob_procreation(animal, fr.n, class_params) :
                     IF animal_gives_birth = 1
                     THEN \E weight \in draw_birth_weight(animal.species,
                                                          class_params) :
                              LET born == add_offspring(island[loc], animal,
                                              weight, next_id, class_params)
                              IN  /\ next_id <= MaxAnimalObjects
                                  /\ island' = [island EXCEPT
                                         ![loc].animals = born.animals]
                                  /\ next_id' = born.next_id
                     ELSE UNCHANGED <<island, next_id>>
                /\ pc' = "procreate"
                /\ frame' = [fr EXCEPT !.idx = @ + 1]
                /\ UNCHANGED <<year, phases_run, moves>>
    /\ UNCHANGED raised
    /\ YearFrame
    /\ UNCHANGED <<sim_log, propensity_cache, lone_animal>>

\* the draw of BaseAnimal.prob_migration
prob_migration(a, cp) == custom_binomial(prob_migration_p(a, cp), 10000000)

\* a slip in find_migrating_animals: has_migrated is not looked at
may_migrate_AnyTime(a) == TRUE

\* the second half of the test in BaseCell.find_migrating_animals
may_migrate(a) == ~a.has_migrated

\* BaseCell.find_migrating_animals: the sets of animals it can return, every
\* animal that draws 1 and has not migrated this year
find_migrating_animals(cell, cp) ==
    {chosen \in SUBSET Ids(cell.animals) :
        \A k \in 1..Len(cell.animals) :
            LET a == cell.animals[k]
            IN  /\ a.id \in chosen =>
                      may_migrate(a) /\ 1 \in prob_migration(a, cp)
                /\ a.id \notin chosen =>
                      ~may_migrate(a) \/ 0 \in prob_migration(a, cp)}

\* Rossumoya.migration, one cell with animals: the animals that migrate are
\* found and marked
FindMigrating ==
    /\ pc = "migrate"
    /\ LET k == NextCellWithAnimals(island, frame.ci)
           loc == LocAt(island, k)
       IN  IF k = 0
           THEN UNCHANGED island /\ Goto("migrate")
           ELSE \E chosen \in find_migrating_animals(island[loc],
                                                     class_params) :
                    LET migrating_animals ==
                            SelectSeq(island[loc].animals,
                                      LAMBDA a : a.id \in chosen)
                    IN  /\ island' =
                              [island EXCEPT ![loc].animals =
                                  [j \in 1..Len(@) |->
                                      IF @[j].id \in chosen
                                      THEN [@[j] EXCEPT
                                               !.has_migrated = TRUE]
                                      ELSE @[j]]]
                        /\ IF Len(migrating_animals) > 0
                           THEN /\ pc' = "move"
                                /\ frame' =
                                     [frame EXCEPT
                                         !.ci = k,
                                         !.queue = IdsOf(migrating_animals)]
                           ELSE /\ pc' = "migrate"
                                /\ frame' = [frame EXCEPT !.ci = k + 1]
                        /\ UNCHANGED <<year, phases_run, moves>>
    /\ UNCHANGED <<next_id, raised>>
    /\ YearFrame
    /\ UNCHANGED <<sim_log, propensity_cache, lone_animal>>

\* Rossumoya.migrate, one animal: a neighbouring cell is chosen and the
\* animal moved there.  The division by a sum of propensities of 0 ends
\* single_year and simulate with the exception
MoveAnimal ==
    /\ pc = "move"
    /\ LET old_loc == LocAt(island, frame.ci)
           animal == AnimalWithId(island[old_loc].animals, Head(frame.queue))
           choice == choose_cell(island, old_loc, animal.species,
                                 class_params)
           read == propensities_read(island, propensity_cache.cells,
                                     old_loc, animal.species, class_params)
           filled == cache_after_read(island, propensity_cache.cells,
                                      old_loc, animal.species, class_params)
       IN  IF choice.raised # NoException
           THEN /\ raised' = choice.raised
                /\ pc' = "idle"
                /\ frame' = NoFrame
                /\ sim_log' = [sim_log EXCEPT !.raised = @ + 1]
                /\ propensity_cache' = [cells |-> filled, read |-> read]
                /\ UNCHANGED <<island, moves>>
           ELSE /\ \E new_loc \in choice.choices :
                     /\ island' =
                          [island EXCEPT
                              ![new_loc].animals = add_animals(@, <<animal>>),
                              ![old_loc].animals =
                                  remove_animals(@, {animal.id})]
                     /\ moves' = [moves EXCEPT
                                     ![animal.id] = Append(@, new_loc)]
                     /\ propensity_cache' =
                          [cells |->
                               migrate_cache(filled, old_loc, new_loc,
                                             Len(frame.queue) = 1),
                           read |-> read]
                /\ IF Len(frame.queue) > 1
                   THEN /\ pc' = "move"
                        /\ frame' = [frame EXCEPT !.queue = Tail(@)]
                   ELSE /\ pc' = "migrate"
                        /\ frame' = [NoFrame EXCEPT !.ci = frame.ci + 1]
                /\ UNCHANGED <<raised, sim_log>>
    /\ UNCHANGED <<year, phases_run, next_id, lone_animal>>
    /\ YearFrame

\* single_year, the loop of reset_migration
ResetMigration ==
    /\ pc = "reset"
    /\ island' =
         [loc \in DOMAIN island |->
             [island[loc] EXCEPT !.animals =
                 [j \in 1..Len(@) |-> [@[j] EXCEPT !.has_migrated = FALSE]]]]
    /\ propensity_cache' = [propensity_cache EXCEPT !.read = <<>>]
    /\ Goto("reset")
    /\ UNCHANGED <<next_id, raised>>
    /\ YearFrame
    /\ UNCHANGED <<sim_log, lone_animal>>

\* single_year, the loop of animals_age_and_lose_weight
AgeAndLoseWeight ==
    /\ pc = "age"
    /\ island' =
         [loc \in DOMAIN island |->
             [island[loc] EXCEPT !.animals =
                 [j \in 1..Len(@) |->
                     weight_loss(aging(@[j]), class_params)]]]
    /\ Goto("age")
    /\ UNCHANGED <<next_id, raised>>
    /\ YearFrame
    /\ UNCHANGED <<sim_log, propensity_cache, lone_animal>>

\* the sets of animals Rossumoya.death can remove: every animal that draws 1
dead_animals(isl, cp) ==
    {dead \in SUBSET {x.animal.id : x \in AllAnimals(isl)} :
        \A x \in AllAnimals(isl) :
            /\ x.animal.id \in dead => 1 \in prob_death(x.animal, cp)
            /\ x.animal.id \notin dead => 0 \in prob_death(x.animal, cp)}

\* Rossumoya.death
Death ==
    /\ pc = "death"
    /\ \E dead \in dead_animals(island, class_params) :
        island' = [loc \in DOMAIN island |->
                      [island[loc] EXCEPT
                          !.animals = remove_animals(@, dead)]]
    /\ Goto("death")
    /\ UNCHANGED <<next_id, raised>>
    /\ YearFrame
    /\ UNCHANGED <<sim_log, propensity_cache, lone_animal>>

(***************************************************************************)
(* The parameter interface on its own: any sequence of set-parameters      *)
(* calls and animal constructions                                          *)
(***************************************************************************)
MaxParamCalls == 2

\* the values a call names a parameter with: a negative one and a valid one
\* that is no default, and the bounds of mu and DeltaPhiMax
ParamValues(n) ==
    {-2000, 500} \cup (IF n = "mu" THEN {2000} ELSE {})
                 \cup (IF n = "DeltaPhiMax" THEN {0} ELSE {})

OneParamDicts(names) ==
    UNION {{[x \in {n} |-> v] : v \in ParamValues(n)} : n \in names}

AnimalParamDicts ==
    {NoParams} \cup OneParamDicts(AnimalParamNames \cup {"DeltaPhiMax"})

LandscapeParamDicts ==
    {NoParams} \cup OneParamDicts({"f_max", "alpha"})
        \cup {[f_max |-> a, alpha |-> b] : a, b \in {-2000, 500}}

SpeciesArgs == {"Herbivore", "Carnivore", "Dog"}

LandscapeArgs == {"S", "J", "D", "M", "O"}

AgeArgs == {None, <<-1>>, <<0>>, <<5>>}

WeightArgs == {None, <<-1000>>, <<0>>, <<20000>>}

InitParamVars ==
    /\ class_params = DefaultParams
    /\ prev_params = DefaultParams
    /\ raised = NoException
    /\ last_call = NoCall
    /\ n_calls = 0

\* a call BioSim.set_animal_parameters(species, params)
SetAnimalParameters ==
    \E species \in SpeciesArgs, params \in AnimalParamDicts :
        LET r == BioSim_set_animal_parameters(class_params, species, params)
        IN  /\ n_calls < MaxParamCalls
            /\ class_params' = r.cp
            /\ prev_params' = class_params
            /\ raised' = r.raised
            /\ last_call' = [op |-> "set_animal_parameters",
                             target |-> species, args |-> params,
                             result |-> <<>>]
            /\ n_calls' = n_calls + 1
            /\ UNCHANGED mapVars
            /\ UNCHANGED simVars

\* a call BioSim.set_landscape_parameters(landscape, params)
SetLandscapeParameters ==
    \E landscape \in LandscapeArgs, params \in LandscapeParamDicts :
        LET r == BioSim_set_landscape_parameters(
                     class_params, landscape, params)
        IN  /\ n_calls < MaxParamCalls
            /\ class_params' = r.cp
            /\ prev_params' = class_params
            /\ raised' = r.raised
            /\ last_call' = [op |-> "set_landscape_parameters",
                             target |-> landscape, args |-> params,
                             result |-> <<>>]
            /\ n_calls' = n_calls + 1
            /\ UNCHANGED mapVars
            /\ UNCHANGED simVars

\* a construction Herbivore(age, weight) or Carnivore(age, weight)
ConstructAnimal ==
    \E species \in {"Herbivore", "Carnivore"},
       age \in AgeArgs, weight \in WeightArgs :
        LET r == BaseAnimal_init(species, age, weight, 0)
        IN  /\ raised' = r.raised
            /\ last_call' = [op |-> "construct", target |-> species,
                             args |-> [age |-> age, weight |-> weight],
                             result |-> r.obj]
            /\ prev_params' = class_params
            /\ UNCHANGED <<class_params, n_calls>>
            /\ UNCHANGED mapVars
            /\ UNCHANGED simVars

\* a call Desert.set_parameters(**kwargs), and the same of Mountain and Ocean:
\* the classes BioSim.set_landscape_parameters does not reach
ClassSetParameters ==
    \E cls \in {"Desert", "Mountain", "Ocean"},
       kwargs \in {NoParams} \cup OneParamDicts({"f_max"}) :
        LET f_max == IF "f_max" \in DOMAIN kwargs THEN kwargs["f_max"]
                     ELSE BaseCellDefaults["f_max"]
            r == BaseCell_set_parameters(class_params[cls], f_max)
        IN  /\ n_calls < MaxParamCalls
            /\ class_params' = [class_params EXCEPT ![cls] = r.attrs]
            /\ prev_params' = class_params
            /\ raised' = r.raised
            /\ last_call' = [op |-> "set_parameters", target |-> cls,
                             args |-> kwargs, result |-> <<>>]
            /\ n_calls' = n_calls + 1
            /\ UNCHANGED mapVars
            /\ UNCHANGED simVars

(***************************************************************************)
(* The seed.  BioSim.__init__ hands its seed to numpy.random.seed; the     *)
(* draws of the year come from Python's random module and from numba, the  *)
(* state of which the program never sets, so that a draw can come out      *)
(* either way whatever the seed is.  A second BioSim is constructed with   *)
(* the arguments of the first one after the first has run.                 *)
(***************************************************************************)

Seeds == {default_seed, 123456}

\* the initial populations of the runs that are compared
SeedPopulations ==
    {<<[loc |-> <<1, 1>>, pop |-> <<HerbStrong, HerbStrong>>]>>,
     <<[loc |-> <<1, 2>>, pop |-> <<HerbWeak, Carn>>]>>}

\* BioSim.animal_distribution: the count of each species in each cell
animal_distribution(isl) ==
    [loc \in DOMAIN isl |->
        [Herbivore |-> total_herbivores(isl[loc]),
         Carnivore |-> total_carnivores(isl[loc])]]

\* BioSim.num_animals_per_species: total_herbivores and total_carnivores
\* summed over the cells
num_animals_per_species(isl) ==
    [Herbivore |->
         SumOver([loc \in DOMAIN isl |-> total_herbivores(isl[loc])],
                 DOMAIN isl),
     Carnivore |->
         SumOver([loc \in DOMAIN isl |-> total_carnivores(isl[loc])],
                 DOMAIN isl)]

\* the first BioSim has run: what it reports is noted and BioSim is
\* constructed again with the same map, initial population and seed
ConstructAgain ==
    /\ pc = "idle"
    /\ first_run = <<>>
    /\ year > 0
    /\ raised = NoException
    /\ LET built == Rossumoya_add_population(
                        make_geography_coordinates(sim_args.island_map),
                        sim_args.ini_pop, 1)
       IN  /\ island' = built.island
           /\ next_id' = built.next_id
           /\ raised' = built.raised
    /\ first_run' = <<[year |-> year,
                       animal_distribution |-> animal_distribution(island)]>>
    /\ np_random_seed' = sim_args.seed
    /\ year' = 0
    /\ final_year' = 0
    /\ frame' = NoFrame
    /\ years_started' = 0
    /\ phases_run' = <<>>
    /\ moves' = NoMoves
    /\ sim_log' = NoSimLog
    /\ propensity_cache' = NoPropensityCache(island')
    /\ class_params' = DefaultParams
    /\ prev_params' = class_params
    /\ last_call' = [op |-> "BioSim", target |-> "", args |-> sim_args,
                     result |-> NoException]
    /\ UNCHANGED <<pc, n_adds, n_calls, sim_args, lone_animal>>
    /\ UNCHANGED mapVars

(***************************************************************************)
(* BioSim() without arguments: Rossumoya builds the default map and places *)
(* default_ini_herbs and then default_ini_carns, animal by animal.         *)
(***************************************************************************)

default_map ==
    JoinLines(<<
        <<"O","O","O","O","O","O","O","O","O","O","O","O","O","O","O","O","O","O","O","O","O">>,
        <<"O","S","S","S","S","S","J","J","J","J","M","M","J","J","J","J","J","J","J","O","O">>,
        <<"O","S","S","S","S","S","J","J","J","J","M","M","J","J","J","J","J","J","J","O","O">>,
        <<"O","S","S","S","S","S","J","J","J","J","M","M","J","J","J","J","J","J","J","O","O">>,
        <<"O","O","S","S","J","J","J","J","J","J","J","M","M","J","J","J","J","J","J","J","O">>,
        <<"O","O","S","S","J","J","J","J","J","J","J","M","M","J","J","J","J","J","J","J","O">>,
        <<"O","O","O","O","O","O","O","O","S","M","M","M","M","J","J","J","J","J","J","J","O">>,
        <<"O","S","S","S","S","S","J","J","J","J","M","M","J","J","J","J","J","J","J","O","O">>,
        <<"O","S","S","S","S","S","S","S","S","S","M","M","J","J","J","J","J","J","O","O","O">>,
        <<"O","S","S","S","S","S","D","D","D","D","D","J","J","J","J","J","J","J","O","O","O">>,
        <<"O","S","S","S","S","S","D","D","D","D","D","J","J","J","J","J","J","J","O","O","O">>,
        <<"O","S","S","S","S","S","D","D","D","D","D","J","J","J","J","J","J","J","O","O","O">>,
        <<"O","S","S","S","S","S","D","D","D","D","D","M","M","J","J","J","J","J","O","O","O">>,
        <<"O","S","S","S","S","D","D","D","D","D","D","J","J","J","J","O","O","O","O","O","O">>,
        <<"O","O","S","S","S","S","D","D","D","D","D","D","J","O","O","O","O","O","O","O","O">>,
        <<"O","O","S","S","S","S","D","D","D","D","D","J","J","J","O","O","O","O","O","O","O">>,
        <<"O","S","S","S","S","S","D","D","D","D","D","J","J","J","J","J","J","J","O","O","O">>,
        <<"O","S","S","S","S","D","D","D","D","D","D","J","J","J","J","O","O","O","O","O","O">>,
        <<"O","O","S","S","S","S","D","D","D","D","D","J","J","J","O","O","O","O","O","O","O">>,
        <<"O","O","O","S","S","S","S","J","J","J","J","J","J","J","O","O","O","O","O","O","O">>,
        <<"O","O","O","S","S","S","S","S","S","O","O","O","O","O","O","O","O","O","O","O","O">>,
        <<"O","O","O","O","O","O","O","O","O","O","O","O","O","O","O","O","O","O","O","O","O">>
    >>)

\* Rossumoya.default_ini_herbs and Rossumoya.default_ini_carns
default_ini_herbs ==
    <<[loc |-> <<10, 13>>,
       pop |-> [k \in 1..150 |-> Individual("Herbivore", 5, 20000)]]>>

default_ini_carns ==
    <<[loc |-> <<10, 13>>,
       pop |-> [k \in 1..70 |-> Individual("Carnivore", 5, 20000)]]>>

\* Rossumoya.__init__ for BioSim(): one animal of the default population
\* is placed, as add_population places it
PlaceInitialAnimal ==
    /\ pc = "construct"
    /\ frame.queue # <<>>
    /\ LET cell_dict == Head(frame.queue)
           r == Rossumoya_add_population(
                    island,
                    <<[loc |-> cell_dict.loc,
                       pop |-> <<Head(cell_dict.pop)>>]>>,
                    next_id)
       IN  /\ island' = r.island
           /\ next_id' = r.next_id
           /\ raised' = r.raised
           /\ pc' = IF r.raised = NoException THEN "construct" ELSE "idle"
           /\ frame' =
                [frame EXCEPT !.queue =
                    IF Len(cell_dict.pop) > 1
                    THEN <<[cell_dict EXCEPT !.pop = Tail(@)]>> \o Tail(@)
                    ELSE Tail(@)]
    /\ UNCHANGED <<year, final_year, years_started, phases_run, moves,
                   n_adds, sim_log, propensity_cache,
                   lone_animal>>
    /\ UNCHANGED <<class_params, prev_params, last_call, n_calls>>
    /\ UNCHANGED seedVars
    /\ UNCHANGED mapVars

\* Rossumoya.__init__, its last lines: the parameters of Savannah, Jungle,
\* Herbivore and Carnivore are put back to their defaults
FinishConstruction ==
    /\ pc = "construct"
    /\ frame.queue = <<>>
    /\ class_params' =
         [class_params EXCEPT
             !.Savannah = Savannah_set_parameters(@, NoParams).attrs,
             !.Jungle = Jungle_set_parameters(@, NoParams).attrs,
             !.Herbivore = Herbivore_set_parameters(@, NoParams).attrs,
             !.Carnivore = Carnivore_set_parameters(@, NoParams).attrs]
    /\ prev_params' = class_params
    /\ pc' = "idle"
    /\ UNCHANGED <<island, year, final_year, frame, next_id, years_started,
                   phases_run, moves, n_adds, sim_log, propensity_cache,
                   lone_animal>>
    /\ UNCHANGED <<raised, last_call, n_calls>>
    /\ UNCHANGED seedVars
    /\ UNCHANGED mapVars

\* the simulation variables of a BioSim on MapA that nothing is done with
InitSimVars ==
    /\ island = make_geography_coordinates(MapA)
    /\ year = 0
    /\ final_year = 0
    /\ pc = "idle"
    /\ frame = NoFrame
    /\ next_id = 1
    /\ years_started = 0
    /\ phases_run = <<>>
    /\ moves = NoMoves
    /\ n_adds = 0
    /\ sim_args = [island_map |-> MapA, ini_pop |-> <<>>,
                   seed |-> default_seed]
    /\ np_random_seed = default_seed
    /\ first_run = <<>>
    /\ sim_log = NoSimLog
    /\ propensity_cache = NoPropensityCache(island)
    /\ lone_animal = NoAnimal

InitMap ==
    /\ InitMapVars
    /\ InitParamVars
    /\ InitSimVars

NextMap == CheckMapInput

SpecMap == InitMap /\ [][NextMap]_vars

InitParams ==
    /\ InitParamVars
    /\ InitSimVars
    /\ map_arg = MapA
    /\ map_result = NoException

NextParams ==
    \/ SetAnimalParameters
    \/ SetLandscapeParameters
    \/ ClassSetParameters
    \/ ConstructAnimal

SpecParams == InitParams /\ [][NextParams]_vars

Init == \E m \in SimMaps : BioSim_init(m, <<>>, default_seed)

Next ==
    \/ AddPopulation
    \/ Simulate
    \/ WhileYear
    \/ RegrowFodder
    \/ FeedCell
    \/ KillAttempt
    \/ ProcreateStep
    \/ FindMigrating
    \/ MoveAnimal
    \/ ResetMigration
    \/ AgeAndLoseWeight
    \/ Death

Spec == Init /\ [][Next]_vars

InitSeed ==
    \E ini_pop \in SeedPopulations, seed \in Seeds :
        BioSim_init(MapA, ini_pop, seed)

NextSeed ==
    \/ Simulate
    \/ WhileYear
    \/ RegrowFodder
    \/ FeedCell
    \/ KillAttempt
    \/ ProcreateStep
    \/ FindMigrating
    \/ MoveAnimal
    \/ ResetMigration
    \/ AgeAndLoseWeight
    \/ Death
    \/ ConstructAgain

SpecSeed == InitSeed /\ [][NextSeed]_vars

\* BioSim() has been called: the default map is built, the default
\* population is still to be placed
InitDefault ==
    /\ map_arg = default_map
    /\ map_result = NoException
    /\ class_params = DefaultParams
    /\ prev_params = DefaultParams
    /\ raised = NoException
    /\ last_call = NoCall
    /\ n_calls = 0
    /\ island = make_geography_coordinates(default_map)
    /\ year = 0
    /\ final_year = 0
    /\ pc = "construct"
    /\ frame = [NoFrame EXCEPT !.queue = default_ini_herbs \o default_ini_carns]
    /\ next_id = 1
    /\ years_started = 0
    /\ phases_run = <<>>
    /\ moves = NoMoves
    /\ n_adds = 0
    /\ sim_args = [island_map |-> None, ini_pop |-> None,
                   seed |-> default_seed]
    /\ np_random_seed = default_seed
    /\ first_run = <<>>
    /\ sim_log = NoSimLog
    /\ propensity_cache = NoPropensityCache(island)
    /\ lone_animal = NoAnimal

NextDefault ==
    \/ PlaceInitialAnimal
    \/ FinishConstruction

SpecDefault == InitDefault /\ [][NextDefault]_vars

(***************************************************************************)
(* The fodder: BioSim.set_landscape_parameters called on a BioSim between  *)
(* its simulate calls.  The cells of the island keep the fodder they have; *)
(* the class attributes f_max and alpha change under them.                 *)
(***************************************************************************)

MaxLandscapeCalls == 1

\* the params of the calls: f_max lowered to 15.0, f_max raised to 900.0
\* with alpha 2.0, alpha 2.0 alone, and a negative f_max
FodderParamDicts ==
    {[f_max |-> 15000], [f_max |-> 900000, alpha |-> 2000],
     [alpha |-> 2000], [f_max |-> -2000]}

\* a call BioSim.set_landscape_parameters(landscape, params) on a BioSim
\* that is not simulating
SetLandscapeParametersOnIsland ==
    /\ pc = "idle"
    /\ n_calls < MaxLandscapeCalls
    /\ \E landscape \in {"S", "J", "D"}, params \in FodderParamDicts :
        LET r == BioSim_set_landscape_parameters(
                     class_params, landscape, params)
        IN  /\ class_params' = r.cp
            /\ prev_params' = class_params
            /\ raised' = r.raised
            /\ last_call' = [op |-> "set_landscape_parameters",
                             target |-> landscape, args |-> params,
                             result |-> <<>>]
    /\ n_calls' = n_calls + 1
    /\ UNCHANGED mapVars
    /\ UNCHANGED simVars

\* the initial populations: two herbivores in the Jungle cell, a herbivore
\* and a carnivore in the Savannah cell, and a carnivore without weight with
\* a herbivore in the Jungle cell
FodderPopulations ==
    SeedPopulations
        \cup {<<[loc |-> <<1, 1>>,
                 pop |-> <<Individual("Carnivore", 5, 0), HerbStrong>>]>>}

InitFodder ==
    \E ini_pop \in FodderPopulations :
        BioSim_init(MapA, ini_pop, default_seed)

NextFodder ==
    \/ SetLandscapeParametersOnIsland
    \/ Simulate
    \/ WhileYear
    \/ RegrowFodder
    \/ FeedCell
    \/ KillAttempt
    \/ ProcreateStep
    \/ FindMigrating
    \/ MoveAnimal
    \/ ResetMigration
    \/ AgeAndLoseWeight
    \/ Death

SpecFodder == InitFodder /\ [][NextFodder]_vars

(***************************************************************************)
(* Births: BaseCell.add_offspring called for the animals of a cell, under  *)
(* the default parameters of the species and under changed ones.           *)
(***************************************************************************)

MaxIslandParamCalls == 1

MaxOffspringCalls == 3

\* the mothers: a pair of strong herbivores, a pair of carnivores, a
\* herbivore as heavy as the cost of the lighter young (1.2 * 6.5) and one
\* without weight
BirthPopulations ==
    {<<[loc |-> <<1, 1>>, pop |-> <<HerbStrong, HerbStrong>>]>>,
     <<[loc |-> <<1, 1>>, pop |-> <<Carn, Carn>>]>>,
     <<[loc |-> <<1, 1>>,
        pop |-> <<Individual("Herbivore", 5, 7800),
                  Individual("Herbivore", 5, 0)>>]>>}

\* the params of the calls: xi of 6.0, a young that costs nothing, and
\* DeltaPhiMax of 0.5
IslandAnimalParamDicts == {[xi |-> 6000], [xi |-> 0], [DeltaPhiMax |-> 500]}

\* a call BioSim.set_animal_parameters(species, params) on a BioSim that is
\* not simulating
SetAnimalParametersOnIsland ==
    /\ pc = "idle"
    /\ n_calls < MaxIslandParamCalls
    /\ \E species \in {"Herbivore", "Carnivore"}, params \in IslandAnimalParamDicts :
        LET r == BioSim_set_animal_parameters(class_params, species, params)
        IN  /\ class_params' = r.cp
            /\ prev_params' = class_params
            /\ raised' = r.raised
            /\ last_call' = [op |-> "set_animal_parameters",
                             target |-> species, args |-> params,
                             result |-> <<>>]
    /\ n_calls' = n_calls + 1
    /\ UNCHANGED mapVars
    /\ UNCHANGED simVars

\* a call cell.add_offspring(animal) for an animal of the cell; n_adds
\* counts these calls here
AddOffspring ==
    /\ pc = "idle"
    /\ n_adds < MaxOffspringCalls
    /\ \E loc \in DOMAIN island :
        \E k \in 1..Len(island[loc].animals) :
            LET animal == island[loc].animals[k]
            IN  \E weight \in draw_birth_weight(animal.species,
                                                class_params) :
                    LET born == add_offspring(island[loc], animal, weight,
                                              next_id, class_params)
                    IN  /\ island' = [island EXCEPT
                                         ![loc].animals = born.animals]
                        /\ next_id' = born.next_id
                        /\ last_call' =
                              [op |-> "add_offspring", target |-> loc,
                               args |-> [animal |-> animal.id,
                                         weight |-> weight],
                               result |-> <<>>]
    /\ n_adds' = n_adds + 1
    /\ raised' = NoException
    /\ UNCHANGED <<year, final_year, pc, frame, years_started, phases_run,
                   moves, sim_log, propensity_cache,
                   lone_animal>>
    /\ UNCHANGED <<class_params, prev_params, n_calls>>
    /\ UNCHANGED seedVars
    /\ UNCHANGED mapVars

InitBirth ==
    \E ini_pop \in BirthPopulations :
        BioSim_init(MapB, ini_pop, default_seed)

NextBirth ==
    \/ SetAnimalParametersOnIsland
    \/ AddOffspring

SpecBirth == InitBirth /\ [][NextBirth]_vars

(***************************************************************************)
(* The kill: Carnivore.prob_carnivore_kill called for a carnivore of the   *)
(* island with the fitness of a prey, under DeltaPhiMax 10.0 and 0.5.      *)
(***************************************************************************)

\* the carnivores: a strong one, an old and light one, one without weight
KillPopulations ==
    {<<[loc |-> <<1, 1>>, pop |-> <<c>>]>> :
        c \in {Carn, Individual("Carnivore", 50, 4000),
               Individual("Carnivore", 5, 0)}}

\* the fitness_prey of the calls, in ten-thousandths: 0, 0.5 and 1, the
\* fitness of the carnivore and its two neighbours, and the fitness of the
\* carnivore less DeltaPhiMax and its two neighbours
PreyFitnesses(carnivore, cp) ==
    {x \in {0, 5000, 10000}
            \cup {fitness(carnivore, cp) + d : d \in {-1, 0, 1}}
            \cup {fitness(carnivore, cp) - cp.Carnivore.DeltaPhiMax * 10 + d :
                      d \in {-1, 0, 1}} :
        0 <= x /\ x <= 10000}

\* a call carnivore.prob_carnivore_kill(fitness_prey)
ProbCarnivoreKill ==
    /\ pc = "idle"
    /\ \E x \in AllAnimals(island) :
        /\ x.animal.species = "Carnivore"
        /\ \E fitness_prey \in PreyFitnesses(x.animal, class_params) :
            \E choice \in prob_carnivore_kill(x.animal, fitness_prey,
                                               class_params) :
                last_call' = [op |-> "prob_carnivore_kill",
                              target |-> x.animal.id,
                              args |-> fitness_prey,
                              result |-> choice]
    /\ raised' = NoException
    /\ UNCHANGED <<class_params, prev_params, n_calls>>
    /\ UNCHANGED mapVars
    /\ UNCHANGED simVars

InitKill ==
    \E ini_pop \in KillPopulations :
        BioSim_init(MapB, ini_pop, default_seed)

NextKill ==
    \/ SetAnimalParametersOnIsland
    \/ ProbCarnivoreKill

SpecKill == InitKill /\ [][NextKill]_vars

(***************************************************************************)
(* The read-only properties of BaseCell and BioSim, read between the calls *)
(* that change the island.                                                 *)
(***************************************************************************)

\* the number of reads in a row the model follows
MaxQueries == 2

\* the cells whose properties are read: an Ocean cell, the Jungle and the
\* Savannah cell of MapA
QueryLocs == {<<0, 0>>, <<1, 1>>, <<1, 2>>}

\* the properties read: those of BioSim, and those of the cells
Queries(isl) ==
    {[name |-> n, loc |-> <<>>] :
        n \in {"year", "num_animals", "num_animals_per_species",
               "animal_distribution"}}
        \cup {[name |-> n, loc |-> loc] :
                 n \in {"total_population", "total_herbivores",
                        "total_carnivores"},
                 loc \in QueryLocs \cap DOMAIN isl}

\* what the property returns
QueryValue(q, isl, yr) ==
    CASE q.name = "year" -> yr
      [] q.name = "num_animals" -> num_animals(isl)
      [] q.name = "num_animals_per_species" -> num_animals_per_species(isl)
      [] q.name = "animal_distribution" -> animal_distribution(isl)
      [] q.name = "total_population" -> total_population(isl[q.loc])
      [] q.name = "total_herbivores" -> total_herbivores(isl[q.loc])
      [] q.name = "total_carnivores" -> total_carnivores(isl[q.loc])

\* one of the properties is read: none of them assigns anything
Query ==
    /\ pc = "idle"
    /\ last_call.op = "query" => last_call.nth < MaxQueries
    /\ \E q \in Queries(island) :
        last_call' = [op |-> "query", target |-> q.name, args |-> q.loc,
                      result |-> QueryValue(q, island, year),
                      nth |-> IF last_call.op = "query"
                              THEN last_call.nth + 1 ELSE 1]
    /\ UNCHANGED <<class_params, prev_params, raised, n_calls>>
    /\ UNCHANGED simVars
    /\ UNCHANGED mapVars

InitQuery ==
    \E ini_pop \in SeedPopulations : BioSim_init(MapA, ini_pop, default_seed)

NextQuery ==
    \/ Query
    \/ Simulate
    \/ WhileYear
    \/ RegrowFodder
    \/ FeedCell
    \/ KillAttempt
    \/ ProcreateStep
    \/ FindMigrating
    \/ MoveAnimal
    \/ ResetMigration
    \/ AgeAndLoseWeight
    \/ Death

SpecQuery == InitQuery /\ [][NextQuery]_vars

(***************************************************************************)
(* Two years on an island of three animals: two carnivores, too light to   *)
(* mate, in the Savannah cell and a herbivore in the Desert cell below it. *)
(***************************************************************************)

PropensityPopulation ==
    <<[loc |-> <<1, 2>>, pop |-> <<Individual("Carnivore", 5, 20000),
                                   Individual("Carnivore", 5, 20000)>>],
      [loc |-> <<2, 2>>, pop |-> <<HerbStrong>>]>>

\* BioSim.simulate(num_years=2) up to its loop
SimulateTwoYears ==
    /\ pc = "idle"
    /\ years_started = 0
    /\ final_year' = simulate_final_year(year, 2)
    /\ last_call' = [op |-> "simulate", target |-> "", args |-> 2,
                     result |-> NoException]
    /\ sim_log' = [num_years |-> sim_log.num_years + 2,
                   raised |-> sim_log.raised,
                   year |-> year,
                   years_started |-> years_started]
    /\ pc' = "loop"
    /\ raised' = NoException
    /\ UNCHANGED <<island, year, frame, next_id, years_started, phases_run,
                   moves, n_adds, propensity_cache,
                   lone_animal>>
    /\ UNCHANGED <<class_params, prev_params, n_calls>>
    /\ UNCHANGED seedVars
    /\ UNCHANGED mapVars

InitPropensity == BioSim_init(MapA, PropensityPopulation, default_seed)

NextPropensity ==
    \/ SimulateTwoYears
    \/ WhileYear
    \/ RegrowFodder
    \/ FeedCell
    \/ KillAttempt
    \/ ProcreateStep
    \/ FindMigrating
    \/ MoveAnimal
    \/ ResetMigration
    \/ AgeAndLoseWeight
    \/ Death

SpecPropensity == InitPropensity /\ [][NextPropensity]_vars

(***************************************************************************)
(* A year on an island whose Savannah cell holds two carnivores, too light *)
(* to mate, and herbivores they can kill, one of them heavier than F.      *)
(***************************************************************************)

HerbOldHeavy == Individual("Herbivore", 60, 60000)

HuntPopulations ==
    {<<[loc |-> <<1, 2>>,
        pop |-> <<Individual("Carnivore", 5, 20000),
                  Individual("Carnivore", 50, 20000),
                  HerbWeak, HerbOldHeavy>>]>>,
     <<[loc |-> <<1, 2>>,
        pop |-> <<Individual("Carnivore", 50, 20000),
                  Individual("Carnivore", 5, 20000),
                  HerbWeak>>]>>}

InitHunt ==
    \E ini_pop \in HuntPopulations : BioSim_init(MapA, ini_pop, default_seed)

NextHunt ==
    \/ Simulate
    \/ WhileYear
    \/ RegrowFodder
    \/ FeedCell
    \/ KillAttempt
    \/ ProcreateStep
    \/ FindMigrating
    \/ MoveAnimal
    \/ ResetMigration
    \/ AgeAndLoseWeight
    \/ Death

SpecHunt == InitHunt /\ [][NextHunt]_vars

(***************************************************************************)
(* Claims about the parameter interface (SpecParams)                       *)
(***************************************************************************)

\* the class a species name or a landscape code stands for
ClassOf ==
    [Herbivore |-> "Herbivore", Carnivore |-> "Carnivore", S |-> "Savannah",
     J |-> "Jungle", D |-> "Desert", M |-> "Mountain", O |-> "Ocean"]

ReturnedFromSetter ==
    /\ last_call.op \in {"set_animal_parameters", "set_landscape_parameters"}
    /\ raised = NoException

\* every parameter of class cls is the value args names it with, and its
\* default if args does not name it
NamedOrDefault(cls, args) ==
    \A n \in DOMAIN class_params[cls] :
        class_params[cls][n] =
            IF n \in DOMAIN args THEN args[n] ELSE DefaultParams[cls][n]

\* C8 as stated: after set_animal_parameters(species, params) or
\* set_landscape_parameters(code, params) returns, for every species and
\* every terrain type, each parameter named in params has the given value and
\* each of the others has its default value.
C8_NamedOrDefaultEveryType ==
    (ReturnedFromSetter /\ last_call.target \in DOMAIN ClassOf)
        => NamedOrDefault(ClassOf[last_call.target], last_call.args)

\* C8 amended: the same for the species Herbivore and Carnivore and the
\* terrain codes S and J, whatever earlier calls had set; for any other
\* species name or terrain code the call returns and changes no parameter.
C8_NamedOrDefault ==
    ReturnedFromSetter
        => IF last_call.target \in {"Herbivore", "Carnivore", "S", "J"}
           THEN NamedOrDefault(ClassOf[last_call.target], last_call.args)
           ELSE class_params = prev_params

\* a setter returned that named one parameter, and put back to its default
\* another one that an earlier call had changed
C8_Witness ==
    /\ ReturnedFromSetter
    /\ last_call.target \in {"Herbivore", "Carnivore", "S"}
    /\ DOMAIN last_call.args # {}
    /\ LET cls == ClassOf[last_call.target]
       IN  \E m \in DOMAIN class_params[cls] \ DOMAIN last_call.args :
               /\ prev_params[cls][m] # DefaultParams[cls][m]
               /\ class_params[cls][m] = DefaultParams[cls][m]

\* the values the specification calls out of range
OutOfRange(n, v) ==
    IF n = "mu" THEN v < 0 \/ v > 1000
    ELSE IF n = "DeltaPhiMax" THEN v <= 0
    ELSE v < 0

\* the class whose set_parameters the last call ran, "" if it ran none
SetterClass ==
    IF /\ last_call.op = "set_animal_parameters"
       /\ last_call.target \in {"Herbivore", "Carnivore"}
    THEN last_call.target
    ELSE IF /\ last_call.op = "set_landscape_parameters"
            /\ last_call.target \in {"S", "J"}
    THEN ClassOf[last_call.target]
    ELSE IF last_call.op = "set_parameters" THEN last_call.target
    ELSE ""

\* the keyword arguments of the last call bind to the signature of the
\* set_parameters it ran (the species take any name, into **kwargs)
CallBinds ==
    \/ SetterClass \in {"Herbivore", "Carnivore"}
    \/ DOMAIN last_call.args \subseteq DOMAIN class_params[SetterClass]

\* the parameters of the class that the last call named out of range
BadNames ==
    {n \in DOMAIN last_call.args \cap DOMAIN class_params[SetterClass] :
        OutOfRange(n, last_call.args[n])}

\* C9: an out-of-range parameter or construction input is rejected with
\* ValueError and never clamped: set_parameters raises ValueError and leaves
\* the attribute as it was for a negative species constant, mu outside
\* [0, 1], DeltaPhiMax <= 0, a negative f_max and a negative alpha; the
\* construction of an animal with negative age or weight raises ValueError
\* and makes no animal.
C9_OutOfRangeRejected ==
    /\ (SetterClass # "" /\ CallBinds /\ BadNames # {})
        => /\ raised.type = "ValueError"
           /\ \A n \in BadNames :
                  class_params[SetterClass][n] = prev_params[SetterClass][n]
    /\ (/\ last_call.op = "construct"
        /\ \/ (last_call.args.age # None /\ last_call.args.age[1] < 0)
           \/ (last_call.args.weight # None /\ last_call.args.weight[1] < 0))
        => /\ raised.type = "ValueError"
           /\ last_call.result = <<>>

\* mu = 2.0 was handed to a species and was rejected
C9_Witness ==
    /\ SetterClass \in {"Herbivore", "Carnivore"}
    /\ "mu" \in BadNames
    /\ last_call.args["mu"] > 1000
    /\ raised.type = "ValueError"

(***************************************************************************)
(* Claims about check_map_input (SpecMap)                                  *)
(***************************************************************************)

\* the rows of the map handed in
MapRows == SplitLines(map_arg)

UnequalRows == \E r \in 1..Len(MapRows) : Len(MapRows[r]) # Len(MapRows[1])

InvalidCode ==
    \E r \in 1..Len(MapRows) : \E c \in 1..Len(MapRows[r]) :
        MapRows[r][c] \notin {"O", "M", "S", "J", "D"}

\* a character other than "O" on the first or last row or column
NonOceanBoundary ==
    \E r \in 1..Len(MapRows) : \E c \in 1..Len(MapRows[r]) :
        /\ r \in {1, Len(MapRows)} \/ c \in {1, Len(MapRows[r])}
        /\ MapRows[r][c] # "O"

\* C6 as stated: check_map_input raises ValueError for every map with rows of
\* unequal length, a character outside {O, M, S, J, D} or a non-"O" character
\* on its boundary, and returns True for every other map.
C6_CheckMapInputDecides ==
    map_result # NoException
        => IF UnequalRows \/ InvalidCode \/ NonOceanBoundary
           THEN map_result.type = "ValueError"
           ELSE map_result = Raise("return", "True")

\* what does hold: the same for every map that has a character on some row
C6_DecidesNonEmptyMaps ==
    (map_result # NoException /\ \E r \in 1..Len(MapRows) : Len(MapRows[r]) > 0)
        => IF UnequalRows \/ InvalidCode \/ NonOceanBoundary
           THEN map_result.type = "ValueError"
           ELSE map_result = Raise("return", "True")


(***************************************************************************)
(* Claims about the simulation, checked under Spec.                        *)
(***************************************************************************)

IsPrefix(a, b) == Len(a) <= Len(b) /\ a = SubSeq(b, 1, Len(a))

\* the statement of single_year a position of pc belongs to
StatementOf(p) ==
    CASE p = "hunt" -> "feed"
      [] p = "move" -> "migrate"
      [] OTHER -> p

C1_Order ==
    <<"regrow", "feed", "procreate", "migrate", "reset", "age", "death">>

C1_Before(p) ==
    SubSeq(C1_Order, 1,
           (CHOOSE k \in 1..Len(C1_Order) : C1_Order[k] = p) - 1)

\* C1: single_year runs its phases in the fixed order fodder regrowth,
\* feeding (herbivores then carnivores of a cell), procreation, migration,
\* reset of the migration flags, aging and weight loss, death, each phase
\* through for all cells before the next begins: while a phase runs, the
\* phases finished are exactly those before it in this order (so migration
\* runs before aging and death after it), and a year is counted only when
\* all seven are through in this order.
C1_PhasesInFixedOrder ==
    /\ [](/\ IsPrefix(phases_run, C1_Order)
          /\ pc \notin {"idle", "loop"} =>
                phases_run = C1_Before(StatementOf(pc)))
    /\ [][year' # year => year' = year + 1 /\ phases_run' = C1_Order]_vars

\* a year is through on an island with animals on it
C1_Witness ==
    /\ pc = "loop"
    /\ year = 1
    /\ phases_run = C1_Order
    /\ num_animals(island) > 0

Impassable(cell) == cell.type \in {"Ocean", "Mountain"}

\* C2: in every reachable state no Ocean cell and no Mountain cell holds an
\* animal.
C2_NoAnimalInOceanOrMountain ==
    \A loc \in DOMAIN island :
        Impassable(island[loc]) => island[loc].animals = <<>>

\* an animal has been moved into a cell that lies next to a Mountain cell
C2_Witness ==
    \E x \in AllAnimals(island) :
        /\ x.animal.id \in DOMAIN moves
        /\ Len(moves[x.animal.id]) = 2
        /\ \E k \in 1..4 : island[locations(x.loc)[k]].type = "Mountain"

Distance(a, b) ==
    (IF a[1] > b[1] THEN a[1] - b[1] ELSE b[1] - a[1])
        + (IF a[2] > b[2] THEN a[2] - b[2] ELSE b[2] - a[2])

\* C3: from the start of the migration phase to the end of the year every
\* living animal that was on the island when migration began has been
\* moved at most once, and it is in the cell it was in or in a cell one
\* step to the left, right, up or down of it.
C3_MigratesOnceToNeighbour ==
    \A x \in AllAnimals(island) :
        x.animal.id \in DOMAIN moves =>
            LET path == moves[x.animal.id]
            IN  /\ Len(path) <= 2
                /\ path[Len(path)] = x.loc
                /\ Distance(path[1], x.loc) <= 1

\* at the end of a year one animal has been moved and another has stayed
C3_Witness ==
    /\ pc = "loop"
    /\ phases_run = C1_Order
    /\ \E x, y \in AllAnimals(island) :
        /\ x.animal.id \in DOMAIN moves
        /\ y.animal.id \in DOMAIN moves
        /\ Len(moves[x.animal.id]) = 2
        /\ Len(moves[y.animal.id]) = 1

\* the animal Rossumoya.migrate is about to move has only Ocean and
\* Mountain around it
Landlocked ==
    /\ pc = "move"
    /\ \A k \in 1..4 :
        Impassable(island[locations(LocAt(island, frame.ci))[k]])

\* C4: when the animal about to be moved has only cells of propensity 0
\* around it, the step leaves it in its cell, raises nothing and migration
\* goes on.
C4_LandlockedAnimalStays ==
    [][Landlocked =>
          /\ raised' = NoException
          /\ pc' \in {"move", "migrate"}
          /\ Head(frame.queue) \in
                 Ids(island'[LocAt(island, frame.ci)].animals)]_vars

\* C10: a call of add_population with a record that names an Ocean or a
\* Mountain cell raises ValueError and leaves the animals of that cell as
\* they were.
C10_ImpassableRecordRejected ==
    [][(last_call'.op = "add_population" /\ n_adds' = n_adds + 1) =>
          \A k \in 1..Len(last_call'.args) :
              Impassable(island[last_call'.args[k].loc]) =>
                  /\ raised'.type = "ValueError"
                  /\ island'[last_call'.args[k].loc].animals
                         = island[last_call'.args[k].loc].animals]_vars

\* add_population has placed the animal of a first record and raised
\* ValueError at a second record, which names a Mountain cell
C10_Witness ==
    /\ last_call.op = "add_population"
    /\ Len(last_call.args) = 2
    /\ island[last_call.args[2].loc].type = "Mountain"
    /\ raised.type = "ValueError"
    /\ num_animals(island) = 1


(***************************************************************************)
(* Claims about the seed, checked under SpecSeed, and about BioSim()       *)
(* without arguments, checked under SpecDefault.                           *)
(***************************************************************************)

\* C5: a BioSim constructed with the seed, the map and the initial
\* population of an earlier BioSim, and run for as many years, reports the
\* species counts the earlier one reported in every cell.
C5_SameSeedSameCounts ==
    (/\ first_run # <<>>
     /\ pc = "idle"
     /\ raised = NoException
     /\ year = first_run[1].year)
        => animal_distribution(island) = first_run[1].animal_distribution

\* C7: when BioSim() is constructed and no year is simulated, the island
\* holds 190 animals, 150 herbivores and 40 carnivores, all in one cell.
C7_DefaultPopulation ==
    (pc = "idle" /\ year = 0) =>
        /\ num_animals(island) = 190
        /\ num_animals_per_species(island)
               = [Herbivore |-> 150, Carnivore |-> 40]
        /\ \E loc \in DOMAIN island : total_population(island[loc]) = 190


(***************************************************************************)
(* Claims about what migration and the other phases keep (Spec)            *)
(***************************************************************************)

\* the places of the animal lists of the island that hold the animal id
PlacesOf(isl, id) ==
    UNION {{<<loc, k>> : k \in {j \in 1..Len(isl[loc].animals) :
                                   isl[loc].animals[j].id = id}} :
               loc \in DOMAIN isl}

\* C11: migration neither makes, loses nor doubles an animal: no step of
\* Rossumoya.migration changes the number of herbivores or of carnivores on
\* the island, and from its start until the reset that follows it every
\* animal that was on the island when it began is in the list of exactly
\* one cell.
C11_MigrationKeepsAnimals ==
    /\ [](pc \in {"migrate", "move", "reset"} =>
            \A id \in DOMAIN moves : Cardinality(PlacesOf(island, id)) = 1)
    /\ [][(pc \in {"migrate", "move"}) =>
             (num_animals_per_species(island')
                  = num_animals_per_species(island))]_vars

\* migration is through and has moved one of two animals out of their cell
C11_Witness ==
    /\ pc = "reset"
    /\ Cardinality(DOMAIN moves) = 2
    /\ \E id \in DOMAIN moves : Len(moves[id]) = 2
    /\ \E id \in DOMAIN moves : Len(moves[id]) = 1


(***************************************************************************)
(* Claims about the fodder (SpecFodder)                                    *)
(***************************************************************************)

FeedingPlace == NextCellWithHerbivores(island, frame.ci)

\* C14: herbivores_eat leaves the cell with fodder of at least 0, has given
\* no herbivore more than beta times the appetite F, and the weight the
\* herbivores of the cell have gained together is beta times the fodder the
\* cell has lost (weights, fodder and beta are in thousandths).
C14_HerbivoresEatConserves ==
    [][(pc = "feed" /\ FeedingPlace # 0) =>
          LET loc == LocAt(island, FeedingPlace)
              before == island[loc]
              after == island'[loc]
              beta == class_params.Herbivore.beta
          IN  /\ after.fodder_in_cell >= 0
              /\ Len(after.animals) = Len(before.animals)
              /\ \A k \in 1..Len(before.animals) :
                     /\ after.animals[k].id = before.animals[k].id
                     /\ (after.animals[k].weight - before.animals[k].weight)
                            * 1000 <= beta * class_params.Herbivore.F
              /\ (SumWeights(OfSpecies(after.animals, "Herbivore"))
                      - SumWeights(OfSpecies(before.animals, "Herbivore")))
                     * 1000
                   = beta * (before.fodder_in_cell - after.fodder_in_cell)]_vars

\* two herbivores have eaten in a cell whose fodder ran out: the first its
\* fill, the second what was left
C14_Witness ==
    /\ pc = "feed"
    /\ \E loc \in DOMAIN island :
        /\ island[loc].fodder_in_cell = 0
        /\ class_params[island[loc].type].f_max > 0
        /\ \E j, k \in 1..Len(island[loc].animals) :
            /\ island[loc].animals[j].species = "Herbivore"
            /\ island[loc].animals[k].species = "Herbivore"
            /\ island[loc].animals[j].weight
                   = 40000 + (class_params.Herbivore.beta
                                  * class_params.Herbivore.F) \div 1000
            /\ island[loc].animals[k].weight > 40000
            /\ island[loc].animals[k].weight < island[loc].animals[j].weight


(***************************************************************************)
(* Claims about births (SpecBirth)                                         *)
(***************************************************************************)

\* C15: add_offspring(animal) with the birth weight drawn adds one animal
\* of that weight, age 0 and the mother's species, and takes xi times the
\* weight from the mother, if xi times the weight is strictly less than the
\* weight of the mother, whose weight is then above 0; otherwise it adds no
\* animal and leaves the mother's weight, and all of the island, as it was.
C15_OffspringOnlyIfMotherHeavier ==
    [][(last_call'.op = "add_offspring") =>
          LET loc == last_call'.target
              weight == last_call'.args.weight
              mother == AnimalWithId(island[loc].animals,
                                     last_call'.args.animal)
              after == AnimalWithId(island'[loc].animals,
                                    last_call'.args.animal)
              cost == class_params[mother.species].xi * weight
              n == Len(island[loc].animals)
          IN  IF cost < mother.weight * 1000
              THEN /\ Len(island'[loc].animals) = n + 1
                   /\ island'[loc].animals[n + 1].weight = weight
                   /\ island'[loc].animals[n + 1].age = 0
                   /\ island'[loc].animals[n + 1].species = mother.species
                   /\ after.weight * 1000 = mother.weight * 1000 - cost
                   /\ after.weight > 0
              ELSE island' = island]_vars

\* under xi = 6.0 a mother has given birth and kept a weight of 1.0, and the
\* other call has added no animal
C15_Witness ==
    /\ last_call.op = "add_offspring"
    /\ class_params.Herbivore.xi = 6000
    /\ n_adds = 2
    /\ num_animals(island) = 3
    /\ \E x \in AllAnimals(island) :
        /\ x.animal.id = last_call.args.animal
        /\ x.animal.weight = 1000


(***************************************************************************)
(* Claims about death (SpecFodder)                                         *)
(***************************************************************************)

Killer ==
    (CHOOSE x \in AllAnimals(island) : x.animal.id = last_call.target).animal

C17_WitnessCertainKill ==
    /\ last_call.op = "prob_carnivore_kill"
    /\ class_params.Carnivore.DeltaPhiMax = 500
    /\ fitness(Killer, class_params) - last_call.args = 5000
    /\ last_call.result = 1


(***************************************************************************)
(* Claims about the year counter (Spec)                                    *)
(***************************************************************************)

Origin ==
    IF /\ DOMAIN moves # {}
       /\ \E o \in DOMAIN island : \A id \in DOMAIN moves : moves[id][1] = o
    THEN moves[CHOOSE id \in DOMAIN moves : TRUE][1]
    ELSE <<>>

\* find_migrating_animals has put every animal of the island among the
\* migrating ones: each carries the mark it sets
EveryAnimalMigrates ==
    \A x \in AllAnimals(island) : x.animal.has_migrated

\* C19: when every animal was in one cell with a neighbour to the left,
\* right, up or down that animals can enter, and every animal was found to
\* migrate, then at the end of the migration phase that cell holds no
\* animal and every animal is in a cell one step to the left, right, up or
\* down of it; the statements of single_year after migration move no
\* animal, so the same is true when the year is through.
C19_AllMigrateOutOfOrigin ==
    /\ []((/\ pc = "reset"
           /\ Origin # <<>>
           /\ \E k \in 1..4 : ~Impassable(island[locations(Origin)[k]])
           /\ EveryAnimalMigrates)
          => /\ island[Origin].animals = <<>>
             /\ \A x \in AllAnimals(island) : Distance(x.loc, Origin) = 1)
    /\ [][(pc \in {"reset", "age", "death"}) =>
             \A x \in AllAnimals(island') :
                 \E y \in AllAnimals(island) :
                     y.animal.id = x.animal.id /\ y.loc = x.loc]_vars

\* two animals of one cell have both migrated, to different cells
C19_Witness ==
    /\ pc = "reset"
    /\ Origin # <<>>
    /\ EveryAnimalMigrates
    /\ \E x, y \in AllAnimals(island) :
           /\ x.loc # y.loc
           /\ Distance(x.loc, Origin) = 1
           /\ Distance(y.loc, Origin) = 1


(***************************************************************************)
(* Claims about the read-only properties (SpecQuery)                       *)
(***************************************************************************)

\* the per-cell counts of animal_distribution, both species, summed
DistributionTotal(isl) ==
    LET data_frame == animal_distribution(isl)
    IN  SumOver([loc \in DOMAIN isl |->
                    data_frame[loc].Herbivore + data_frame[loc].Carnivore],
                DOMAIN isl)

\* C20: reading total_population, total_herbivores, total_carnivores,
\* num_animals, num_animals_per_species, animal_distribution or year
\* changes nothing of the simulation; a property read again, with no call
\* in between that changes the island, returns what it returned before,
\* which is its value on the island as it is; and num_animals is the sum
\* of the two counts of num_animals_per_species and the sum of the counts
\* of all cells in animal_distribution.
C20_QueriesReadOnly ==
    /\ [][(last_call'.op = "query" /\ last_call' # last_call) =>
             /\ UNCHANGED simVars
             /\ UNCHANGED mapVars
             /\ UNCHANGED <<class_params, prev_params, raised, n_calls>>]_vars
    /\ [][(/\ last_call.op = "query"
           /\ last_call'.op = "query"
           /\ last_call' # last_call
           /\ last_call'.target = last_call.target
           /\ last_call'.args = last_call.args) =>
             last_call'.result = last_call.result]_vars
    /\ [](last_call.op = "query" =>
            last_call.result =
                QueryValue([name |-> last_call.target,
                            loc |-> last_call.args], island, year))
    /\ [](/\ num_animals(island)
               = num_animals_per_species(island).Herbivore
                     + num_animals_per_species(island).Carnivore
          /\ num_animals(island) = DistributionTotal(island))

\* after a year that left animals of both species in two cells, num_animals
\* is read a second time in a row
C20_Witness ==
    /\ pc = "idle"
    /\ year = 1
    /\ last_call.op = "query"
    /\ last_call.target = "num_animals"
    /\ last_call.nth = 2
    /\ last_call.result = 2
    /\ num_animals_per_species(island).Herbivore = 1
    /\ num_animals_per_species(island).Carnivore = 1
    /\ \E l1, l2 \in DOMAIN island :
           /\ l1 # l2
           /\ total_population(island[l1]) = 1
           /\ total_population(island[l2]) = 1


(***************************************************************************)
(* Claims about the cached propensities                                    *)
(***************************************************************************)

\* C21: every propensity choose_cell reads for a neighbouring cell is the
\* value computed from the fodder and the animals of that cell as they are
\* when it is read: no cached value is read while it differs from it.
C21_PropensityReadIsFresh ==
    \A k \in 1..Len(propensity_cache.read) :
        propensity_cache.read[k].used = propensity_cache.read[k].fresh


(***************************************************************************)
(* Claims about carnivores_eat (SpecHunt)                                  *)
(***************************************************************************)

\* the cell carnivores_eat is running in
HuntCell == island[LocAt(island, frame.ci)]

\* the carnivore whose turn it is
Hunter == AnimalWithId(HuntCell.animals, Head(frame.queue))

\* the carnivore whose turn it is has no herbivore left to try or has
\* eaten F: the next step of carnivores_eat is its weight_gain
HunterThrough ==
    /\ pc = "hunt"
    /\ frame.queue # <<>>
    /\ frame.prey = <<>> \/ frame.food_eaten >= class_params.Carnivore.F

\* the weight of the herbivores the carnivore has killed in its turn
KilledWeight ==
    SumWeights(SelectSeq(HuntCell.animals,
                         LAMBDA a : a.id \in frame.killed_herbivores))

\* C22: in carnivores_eat the weight of a carnivore changes once, when its
\* turn is over, by beta * min(F, the weight of the herbivores it killed),
\* and every herbivore it killed is then off the list of the cell, also
\* when the weight killed is above F; no other step of carnivores_eat
\* changes a weight or removes an animal.
C22_CarnivoreGainsOnceUpToF ==
    [][(pc = "hunt") =>
          LET loc == LocAt(island, frame.ci)
              F == class_params.Carnivore.F
              eaten == IF KilledWeight < F THEN KilledWeight ELSE F
          IN  IF HunterThrough
              THEN /\ AnimalWithId(island'[loc].animals, Hunter.id).weight
                        = Hunter.weight
                              + (class_params.Carnivore.beta * eaten)
                                    \div 1000
                   /\ Ids(island'[loc].animals)
                        = Ids(HuntCell.animals) \ frame.killed_herbivores
                   /\ \A k \in 1..Len(island'[loc].animals) :
                          LET a == island'[loc].animals[k]
                          IN  a.id # Hunter.id =>
                                  a.weight
                                      = AnimalWithId(HuntCell.animals,
                                                     a.id).weight
                   /\ \A l \in DOMAIN island :
                          l # loc => island'[l] = island[l]
                   /\ pc' = "hunt" =>
                          \A k \in 1..Len(frame'.queue) :
                              frame'.queue[k] # Hunter.id
              ELSE island' = island]_vars

\* a carnivore of weight 20 has killed more than F and gained beta * F, and
\* the heavy herbivore is gone
C22_Witness ==
    /\ pc \in {"hunt", "feed", "procreate"}
    /\ \E x \in AllAnimals(island) :
           /\ x.animal.species = "Carnivore"
           /\ x.animal.weight
                  = 20000 + (class_params.Carnivore.beta
                                 * class_params.Carnivore.F) \div 1000
    /\ \A x \in AllAnimals(island) :
           x.animal.species = "Herbivore" => x.animal.weight < 50000
    /\ Len(sim_args.ini_pop[1].pop) = 4


\* the herbivores of the cell carnivores_eat is running in
HuntHerbivores == Ids(OfSpecies(HuntCell.animals, "Herbivore"))

\* C23: in carnivores_eat the carnivores take their turns from the fittest
\* to the least fit and each tries the herbivores from the least fit to
\* the fittest; a carnivore that has eaten F tries no further kill; the
\* herbivores a carnivore tries are those no earlier carnivore killed, and
\* when its turn ends the number of herbivores of the cell falls by the
\* number it killed.
C23_HuntOrderAndStop ==
    /\ [](pc = "hunt" =>
            /\ \A i, j \in 1..Len(frame.queue) :
                   i < j =>
                       fitness(AnimalWithId(HuntCell.animals,
                                            frame.queue[i]), class_params)
                           >= fitness(AnimalWithId(HuntCell.animals,
                                                   frame.queue[j]),
                                      class_params)
            /\ \A i, j \in 1..Len(frame.prey) :
                   i < j =>
                       fitness(AnimalWithId(HuntCell.animals,
                                            frame.prey[i]), class_params)
                           <= fitness(AnimalWithId(HuntCell.animals,
                                                   frame.prey[j]),
                                      class_params)
            /\ frame.food_eaten <= class_params.Carnivore.F
            /\ frame.killed_herbivores \subseteq HuntHerbivores
            /\ \A k \in 1..Len(frame.prey) :
                   /\ frame.prey[k] \in HuntHerbivores
                   /\ frame.prey[k] \notin frame.killed_herbivores)
    /\ [][(pc = "hunt" /\ pc' = "hunt" /\ frame'.queue = frame.queue) =>
             /\ frame.food_eaten < class_params.Carnivore.F
             /\ frame'.prey = Tail(frame.prey)
             /\ \/ frame'.killed_herbivores = frame.killed_herbivores
                \/ frame'.killed_herbivores
                       = frame.killed_herbivores \cup {Head(frame.prey)}]_vars
    /\ [][HunterThrough =>
             total_herbivores(island'[LocAt(island, frame.ci)])
                 = total_herbivores(HuntCell)
                       - Cardinality(frame.killed_herbivores)]_vars

\* the turn of the second carnivore: of two herbivores the first carnivore
\* has killed one, and the second has tried and killed the other
C23_Witness ==
    /\ pc = "hunt"
    /\ Len(sim_args.ini_pop[1].pop) = 4
    /\ Len(frame.queue) = 1
    /\ Cardinality(HuntHerbivores) = 1
    /\ frame.prey = <<>>
    /\ frame.killed_herbivores = HuntHerbivores

(***************************************************************************)
(* The fitness memo: the methods of BaseAnimal that change age or weight   *)
(* called in any order on one animal object, with reads of the fitness     *)
(* property in between.                                                    *)
(***************************************************************************)

\* the number of calls on the animal the model follows
MaxMethodCalls == 4

\* BaseAnimal.__init__ with the attributes the fitness property keeps
Animal_new(species, age, weight) ==
    LET obj == BaseAnimal_init(species, <<age>>, <<weight>>, 0).obj[1]
    IN  [id |-> obj.id, species |-> obj.species, age |-> obj.age,
         weight |-> obj.weight, has_migrated |-> obj.has_migrated,
         _fitness |-> None, fitness_has_been_calculated |-> FALSE]

\* a slip in weight_loss: fitness_has_been_calculated is left as it is
Animal_weight_loss_KeepsMemo(self, cp) == weight_loss(self, cp)

\* aging, weight_gain, weight_loss and weight_loss_birth on the object:
\* the change and fitness_has_been_calculated = False
Animal_aging(self) ==
    [aging(self) EXCEPT !.fitness_has_been_calculated = FALSE]

Animal_weight_gain(self, food, cp) ==
    [weight_gain(self, food, cp) EXCEPT
        !.fitness_has_been_calculated = FALSE]

Animal_weight_loss(self, cp) ==
    [weight_loss(self, cp) EXCEPT !.fitness_has_been_calculated = FALSE]

Animal_weight_loss_birth(self, weight_offspring, cp) ==
    [weight_loss_birth(self, weight_offspring, cp) EXCEPT
        !.fitness_has_been_calculated = FALSE]

\* the fitness property read on the object: _fitness if
\* fitness_has_been_calculated, else the value is calculated and kept
Animal_fitness(self, cp) ==
    IF self.fitness_has_been_calculated
    THEN [value |-> self._fitness[1], self |-> self]
    ELSE LET value == fitness(self, cp)
         IN  [value |-> value,
              self |-> [self EXCEPT !._fitness = <<value>>,
                                    !.fitness_has_been_calculated = TRUE]]

LoneAnimals ==
    {Animal_new("Herbivore", 5, 20000), Animal_new("Carnivore", 50, 5000),
     Animal_new("Herbivore", 0, 0)}

FoodArgs == {0, 10000}

OffspringWeightArgs == {8000, 30000}

\* a call of method op on the animal that leaves it as after
MethodCall(op, args, result, after) ==
    /\ lone_animal # NoAnimal
    /\ n_calls < MaxMethodCalls
    /\ n_calls' = n_calls + 1
    /\ lone_animal' = after
    /\ last_call' = [op |-> op, target |-> lone_animal.species,
                     args |-> args, result |-> result]
    /\ raised' = NoException
    /\ UNCHANGED <<class_params, prev_params>>
    /\ UNCHANGED mapVars
    /\ UNCHANGED <<island, year, final_year, pc, frame, next_id,
                   years_started, phases_run, moves, n_adds, sim_args,
                   np_random_seed, first_run, sim_log, propensity_cache>>

Aging == MethodCall("aging", <<>>, None, Animal_aging(lone_animal))

WeightGain ==
    \E food \in FoodArgs :
        MethodCall("weight_gain", <<food>>, None,
                   Animal_weight_gain(lone_animal, food, class_params))

WeightLoss ==
    MethodCall("weight_loss", <<>>, None,
               Animal_weight_loss(lone_animal, class_params))

WeightLossBirth ==
    \E weight_offspring \in OffspringWeightArgs :
        MethodCall("weight_loss_birth", <<weight_offspring>>, None,
                   Animal_weight_loss_birth(lone_animal, weight_offspring,
                                            class_params))

\* a read of the fitness property; args records the _fitness the object
\* held when the read was made
ReadFitness ==
    LET read == Animal_fitness(lone_animal, class_params)
    IN  MethodCall("fitness", lone_animal._fitness, <<read.value>>,
                   read.self)

InitFitness ==
    /\ InitParamVars
    /\ map_arg = MapA
    /\ map_result = NoException
    /\ island = make_geography_coordinates(MapA)
    /\ year = 0
    /\ final_year = 0
    /\ pc = "idle"
    /\ frame = NoFrame
    /\ next_id = 1
    /\ years_started = 0
    /\ phases_run = <<>>
    /\ moves = NoMoves
    /\ n_adds = 0
    /\ sim_args = [island_map |-> MapA, ini_pop |-> <<>>,
                   seed |-> default_seed]
    /\ np_random_seed = default_seed
    /\ first_run = <<>>
    /\ sim_log = NoSimLog
    /\ propensity_cache = NoPropensityCache(island)
    /\ lone_animal \in LoneAnimals

NextFitness ==
    \/ Aging
    \/ WeightGain
    \/ WeightLoss
    \/ WeightLossBirth
    \/ ReadFitness

SpecFitness == InitFitness /\ [][NextFitness]_vars

(***************************************************************************)
(* Claims about the fitness memo (SpecFitness)                             *)
(***************************************************************************)

\* C24: after any sequence of aging, weight_gain, weight_loss and
\* weight_loss_birth a read of fitness returns the value of the formula for
\* the age and weight the animal has, 0 for a weight of 0 or less; the
\* value kept in _fitness is returned only while it is that value.
C24_FitnessReadIsCurrent ==
    lone_animal # NoAnimal =>
        /\ lone_animal.fitness_has_been_calculated =>
               lone_animal._fitness
                   = <<fitness(lone_animal, class_params)>>
        /\ last_call.op = "fitness" =>
               /\ last_call.result
                      = <<fitness(lone_animal, class_params)>>
               /\ lone_animal.weight > 0 =>
                      last_call.result
                          = <<fitness_calculator(
                                  class_params[lone_animal.species].phi_age,
                                  lone_animal.age,
                                  class_params[lone_animal.species].a_half,
                                  class_params[lone_animal.species]
                                      .phi_weight,
                                  lone_animal.weight,
                                  class_params[lone_animal.species].w_half)>>
               /\ lone_animal.weight <= 0 => last_call.result = <<0>>

\* a read that found an older value in _fitness and returned another
C24_Witness ==
    /\ lone_animal # NoAnimal
    /\ last_call.op = "fitness"
    /\ last_call.args # None
    /\ last_call.args # last_call.result
    /\ n_calls >= 3

\* a read of the fitness of an animal whose weight has fallen below 0
C24_WitnessNoWeight ==
    /\ lone_animal # NoAnimal
    /\ last_call.op = "fitness"
    /\ lone_animal.weight < 0
    /\ last_call.result = <<0>>


(***************************************************************************)
(* Claims about the breeding season (SpecSeed)                             *)
(***************************************************************************)

\* the cell a breeding loop is running in, the species it is about, and
\* the animals of that species in the cell that were not born this season
BreedingCell == island[LocAt(island, frame.ci)]

BreedingSpecies == IF frame.stage = "herbs" THEN "Herbivore" ELSE "Carnivore"

AtStartOfBreedingSeason ==
    {k \in 1..Len(BreedingCell.animals) :
        /\ BreedingCell.animals[k].species = BreedingSpecies
        /\ BreedingCell.animals[k].age > 0}

\* C25: in herb_procreation and carn_procreation the n handed to
\* prob_procreation is, for every animal that is asked, the number of
\* animals of the species in the cell when the loop began; the young added
\* since are not counted.
C25_BreedingCountFixed ==
    (pc = "procreate" /\ frame.stage \in {"herbs", "carns"}) =>
        frame.n = Cardinality(AtStartOfBreedingSeason)

\* a young has been born in the loop, which has animals still to ask
C25_Witness ==
    /\ pc = "procreate"
    /\ frame.stage = "herbs"
    /\ frame.n = 2
    /\ total_herbivores(BreedingCell) = 3
    /\ frame.idx <= Len(BreedingCell.animals)


(***************************************************************************)
(* Claims about the year as a whole (SpecHunt)                             *)
(***************************************************************************)

\* how often statement p of single_year has been run in the running year
TimesRun(p) ==
    Cardinality({k \in 1..Len(phases_run) : phases_run[k] = p})

\* C26: in a single_year every animal takes part in each statement at most
\* once, migrated or not: every animal object is in the list of one cell
\* only; the aging statement is run once, adds 1 to the age of every animal
\* and takes eta * weight off its weight, and no other step changes an
\* age; the cells are fed one after the other, a herbivore gains weight
\* only when its cell is fed and a carnivore only as its turn in
\* carnivores_eat ends.
C26_EachPhaseOncePerAnimal ==
    /\ [](/\ \A x \in AllAnimals(island) :
                Cardinality(PlacesOf(island, x.animal.id)) = 1
          /\ \A p \in {"feed", "age"} :
                /\ TimesRun(p) <= 1
                /\ pc = p => TimesRun(p) = 0)
    /\ [][\A x \in AllAnimals(island), y \in AllAnimals(island') :
              x.animal.id = y.animal.id =>
                  /\ IF pc = "age"
                     THEN /\ y.animal.age = x.animal.age + 1
                          /\ y.animal.weight
                                 = x.animal.weight
                                       - (class_params[x.animal.species].eta
                                              * x.animal.weight) \div 1000
                     ELSE y.animal.age = x.animal.age
                  /\ y.animal.weight > x.animal.weight =>
                         IF x.animal.species = "Herbivore"
                         THEN /\ pc = "feed"
                              /\ x.loc = LocAt(island,
                                               NextCellWithHerbivores(
                                                   island, frame.ci))
                              /\ y.animal.weight - x.animal.weight
                                     <= (class_params.Herbivore.beta
                                             * class_params.Herbivore.F)
                                            \div 1000
                         ELSE /\ pc = "hunt"
                              /\ x.loc = LocAt(island, frame.ci)
                              /\ \E k \in 1..Len(frame.queue) :
                                     frame.queue[k] = x.animal.id
                              /\ pc' = "hunt" =>
                                     \A k \in 1..Len(frame'.queue) :
                                         frame'.queue[k] # x.animal.id]_vars
    /\ [][(pc \in {"feed", "hunt"} /\ pc' \in {"feed", "hunt"}) =>
              /\ frame'.ci >= frame.ci
              /\ pc' = "feed" => frame'.ci > frame.ci]_vars

\* the year is through with an animal that migrated and one that stayed
C26_Witness ==
    /\ pc = "loop"
    /\ year = 1
    /\ \E x, y \in AllAnimals(island) :
           /\ x.animal.id \in DOMAIN moves
           /\ y.animal.id \in DOMAIN moves
           /\ Len(moves[x.animal.id]) = 2
           /\ Len(moves[y.animal.id]) = 1
           /\ x.animal.age \in {6, 51, 61}
           /\ y.animal.age \in {6, 51, 61}


(***************************************************************************)
(* The breeding season under changed parameters: two herbivores in the     *)
(* Jungle cell of the small map, set_animal_parameters, and a year up to   *)
(* the end of procreation.                                                 *)
(***************************************************************************)

\* params the species accept: no weight limit for mating, and with it a
\* young that costs nothing and a gamma that makes every draw a birth
BreedingParamDicts ==
    {[zeta |-> 0], [zeta |-> 0, gamma |-> 10000, xi |-> 0]}

\* a call BioSim.set_animal_parameters(species, params) before the first
\* simulate call
SetBreedingParameters ==
    /\ pc = "idle"
    /\ years_started = 0
    /\ n_calls < MaxIslandParamCalls
    /\ \E species \in {"Herbivore", "Carnivore"},
          params \in BreedingParamDicts :
        LET r == BioSim_set_animal_parameters(class_params, species, params)
        IN  /\ class_params' = r.cp
            /\ prev_params' = class_params
            /\ raised' = r.raised
            /\ last_call' = [op |-> "set_animal_parameters",
                             target |-> species, args |-> params,
                             result |-> <<>>]
    /\ n_calls' = n_calls + 1
    /\ UNCHANGED mapVars
    /\ UNCHANGED simVars

InitBreed ==
    BioSim_init(MapB,
                <<[loc |-> <<1, 1>>, pop |-> <<HerbStrong, HerbStrong>>]>>,
                default_seed)

NextBreed ==
    \/ SetBreedingParameters
    \/ Simulate
    \/ WhileYear
    \/ RegrowFodder
    \/ FeedCell
    \/ ProcreateStep

SpecBreed == InitBreed /\ [][NextBreed]_vars

(***************************************************************************)
(* Claims about the breeding season under changed parameters (SpecBreed)   *)
(***************************************************************************)

\* C27: a breeding loop asks only the animals that were in the cell when
\* it began, each of them once, so that the young born in it are no more
\* than the animals of the species it began with.
C27_BirthsWithinStartCount ==
    (pc = "procreate" /\ frame.stage \in {"herbs", "carns"}) =>
        Cardinality({k \in 1..Len(BreedingCell.animals) :
                        /\ BreedingCell.animals[k].species = BreedingSpecies
                        /\ BreedingCell.animals[k].age = 0})
            <= frame.n

\* more young than the loop began with animals
C27_MoreBirthsThanAnimals ==
    /\ pc = "procreate"
    /\ frame.stage = "herbs"
    /\ frame.n = 2
    /\ total_herbivores(BreedingCell) >= 5


(***************************************************************************)
(* Claims about rejected calls (SpecParams, Spec)                          *)
(***************************************************************************)

\* C28: a set-parameters call that raises ValueError leaves every parameter
\* of the species or terrain it was made for as it was before the call.
C28_RejectedSetterChangesNothing ==
    (SetterClass # "" /\ raised.type = "ValueError") =>
        class_params[SetterClass] = prev_params[SetterClass]


\* C29: a call of add_population that raises leaves the animals of every
\* cell as they were before the call.
C29_RejectedPopulationAddsNothing ==
    [][(/\ last_call'.op = "add_population"
        /\ n_adds' = n_adds + 1
        /\ raised' # NoException) =>
           \A loc \in DOMAIN island :
               island'[loc].animals = island[loc].animals]_vars


(***************************************************************************)
(* Constructions between the set-parameters calls: a cell of one of the    *)
(* five classes, and an island, made while the class attributes stand as   *)
(* earlier calls left them.                                                *)
(***************************************************************************)

\* a construction Savannah(), Jungle(), Desert(), Mountain() or Ocean():
\* BaseCell.__init__ calls self.set_parameters()
ConstructCell ==
    \E cls \in {"Savannah", "Jungle", "Desert", "Mountain", "Ocean"} :
        LET r == CASE cls = "Savannah" ->
                          Savannah_set_parameters(class_params[cls], NoParams)
                   [] cls = "Jungle" ->
                          Jungle_set_parameters(class_params[cls], NoParams)
                   [] OTHER ->
                          BaseCell_set_parameters(class_params[cls],
                                                  BaseCellDefaults["f_max"])
        IN  /\ class_params' = [class_params EXCEPT ![cls] = r.attrs]
            /\ prev_params' = class_params
            /\ raised' = r.raised
            /\ last_call' = [op |-> "cell", target |-> cls,
                             args |-> NoParams, result |-> <<>>]
            /\ UNCHANGED n_calls
            /\ UNCHANGED mapVars
            /\ UNCHANGED simVars

\* a construction Rossumoya(island_map, []) of a further island, as
\* BioSim.__init__ makes it: the last statements of Rossumoya.__init__ call
\* set_parameters() of Savannah, Jungle, Herbivore and Carnivore
ConstructRossumoya ==
    /\ class_params' =
         [class_params EXCEPT
             !["Savannah"] = Savannah_set_parameters(@, NoParams).attrs,
             !["Jungle"] = Jungle_set_parameters(@, NoParams).attrs,
             !["Herbivore"] = Herbivore_set_parameters(@, NoParams).attrs,
             !["Carnivore"] = Carnivore_set_parameters(@, NoParams).attrs]
    /\ prev_params' = class_params
    /\ raised' = NoException
    /\ last_call' = [op |-> "Rossumoya", target |-> "", args |-> NoParams,
                     result |-> <<>>]
    /\ UNCHANGED n_calls
    /\ UNCHANGED mapVars
    /\ UNCHANGED simVars

NextConstruct ==
    \/ SetAnimalParameters
    \/ SetLandscapeParameters
    \/ ConstructCell
    \/ ConstructRossumoya

SpecConstruct == InitParams /\ [][NextConstruct]_vars

(***************************************************************************)
(* Claims about constructions (SpecConstruct)                              *)
(***************************************************************************)

\* C30: the parameters of a species or a terrain stay as the last
\* set-parameters call for it left them: a step changes a parameter of a
\* class only if it is a set_animal_parameters or set_landscape_parameters
\* call for that class; no construction of a cell or an island does.
C30_ParametersKeptUntilNextSetter ==
    [][\A cls \in DOMAIN class_params :
           class_params'[cls] # class_params[cls] =>
               /\ n_calls' = n_calls + 1
               /\ last_call'.target \in DOMAIN ClassOf
               /\ ClassOf[last_call'.target] = cls]_vars

=============================================================================
